---- MODULE Spec2Model ----
(***************************************************************************)
(* Task & Session Lifecycle Engine of the Local AI Automation Hub.         *)
(*                                                                         *)
(* The persistent state is the SQLite backlog database of                  *)
(* data/backlog/schema.sql: the tables backlog_items, backlog_events and   *)
(* clarifications, their column defaults and CHECK constraints, the        *)
(* AUTOINCREMENT row ids and the four AFTER UPDATE triggers.  SQLite runs  *)
(* a statement together with the triggers it fires as one atomic step, so  *)
(* every action below is one such step.  Triggers are modelled with the    *)
(* recursive_triggers pragma at its default (off): a trigger never fires   *)
(* itself, but the UPDATE inside trg_set_completed_at fires                *)
(* trg_backlog_updated.                                                    *)
(*                                                                         *)
(* The request handlers that issue the statements (create, update,         *)
(* changeStatus, changePriority, ask, answer, delete) are not part of the  *)
(* available sources; they follow sections 4.1 and 4.2 of the design.      *)
(* The same holds for the session state machine (section 4.4) and for the  *)
(* what-next query (section 4.3), whose ranking is the view                *)
(* v_active_by_priority of the schema.                                     *)
(*                                                                         *)
(* The dashboard side is static/js/core/event-bus.js (EventBus),           *)
(* static/js/core/websocket-manager.js (WebSocketManager, without its      *)
(* ping interval), the ApiClient and the Vue components that call the      *)
(* engine; the Kanban component observes the server's board over HTTP and  *)
(* over /kanban/ws.                                                        *)
(***************************************************************************)
EXTENDS Integers, Sequences, FiniteSets, TLC

\* ------------------------------------------------------------------ bounds
\* Caps on the event logs, the clock, the items and the clarifications; on the
\* WebSocket objects alive at once, the pending reconnect timeouts, the
\* connect() calls waiting at once, the send() calls and the reconnect counter.
MaxEvents == 5
MaxTime == 2
MaxItems == 2
MaxClar == 2
MaxSockets == 2
MaxTimers == 2
MaxWaiting == 1
MaxSends == 2
MaxAttempts == 11
\* Caps on the writes to the server's board, the loadBoard requests in flight,
\* the messages on their way over /kanban/ws and the pending timeouts of the
\* Kanban component.
MaxWrites == 3
MaxRequests == 2
MaxChannel == 2
MaxTimeouts == 1
\* Cap on the emits in progress, one inside the other.
MaxDepth == 3
\* Cap on the listeners of one event of the WebSocketService.
MaxListeners == 2
\* Caps on the streams one chat module starts and on the tokens of a stream.
MaxStreams == 2
MaxTokens == 1

\* ------------------------------------------------------- schema vocabulary
\* SQL NULL in a DATETIME column; CURRENT_TIMESTAMP values start at 1.
NULL == 0
\* SQL NULL in a TEXT column.
NullText == "NULL"
\* A field absent from a request.
Omitted == "omitted"

Priorities == {"P0", "P1", "P2", "P3"}
ItemTypes == {"personal", "work", "mixed"}
Statuses == {"open", "needs_clarification", "in_progress", "blocked", "done", "cancelled"}
ActorTypes == {"user", "system", "llm"}

DefaultPriorityLowest == "P3"
DefaultPriority == "P2"
DefaultItemType == "personal"
DefaultStatus == "open"
DefaultActorType == "system"

\* Request inputs are drawn from these sets.
Titles == {"t1"}
Answers == {"a1", "a2"}
CreateStatuses == {Omitted, "done"}
CreatePriorities == {Omitted}
PatchStatuses == {Omitted, "done"}
ChangeStatuses == {"open", "in_progress", "blocked", "done", "cancelled"}
ChangePriorities == {"P1"}
Questions == {"q1"}
Callers == {"c1", "c2"}
PatchPriorities == {Omitted, "P1"}
CreateTitles == {Omitted} \cup Titles
PatchTitles == {Omitted, "t2"}
SessionNames == {"s1", "s2"}
EventNames == {"e1", "*"}
\* Callbacks that act on the bus while an emit runs: f returns; u calls the
\* unsubscribe function of f; w, given to once, emits the event it is called
\* for; r, given to once, gives itself to once again for the same event.
PlainCallbacks == {"f", "u"}
OnceCallbacks == {"w", "r"}
Callbacks == {"f", "g"}
Payloads == {"d1"}
RecommendStatuses == {"open", "done", "cancelled"}
MessageTypes == {"pong", "", "metrics", "connected", "error"}

VARIABLES
    backlog_items,    \* id -> row of backlog_items
    backlog_events,   \* rows of backlog_events in insertion order
    clarifications,   \* id -> row of clarifications
    sqlite_sequence,  \* largest row id ever used, per AUTOINCREMENT table
    now,              \* CURRENT_TIMESTAMP
    result,           \* outcome of the last request
    calls,            \* caller -> outcome of its changeStatus(item, done) call
    sessions,         \* session_id -> materialized session row
    session_events,   \* events of the sessions in append order
    recommendation,   \* the recommendation the dashboard shows
    toast,            \* the last message the dashboard showed
    listeners,        \* eventBus.listeners: event name -> Set of callbacks
    stack,            \* the eventBus.emit calls in progress, innermost last
    invoked,          \* the callback invocations of the last emit
    emit_result,      \* how the last emit ended
    wsManager,        \* the fields of the WebSocketManager singleton
    sockets,          \* the WebSocket objects that can still fire an event
    timers,           \* delays of the pending reconnect timeouts
    waiting,          \* pending connect() promises that wait on the event bus
    ws_emitted,       \* events the manager emitted in the last step
    transmitted,      \* messages handed to WebSocket.send in the last step
    sends,            \* number of send() calls so far
    user_disconnected, \* disconnect() was the client's last call
    api_call,         \* the ApiClient.request call: phase, what fetch gave, outcome
    kanban,           \* the Kanban component: mounted, board, wsKanban, timeouts
    server_board,     \* the version of the board the server holds
    ws_channel,       \* messages of /kanban/ws on their way to the component
    http,             \* GET /kanban/board requests of loadBoard in flight
    handled,          \* once callback -> times it ran since once() (2: twice or more)
    unsubscribed,     \* <<event, callback, an emit was still to reach it>>:
                      \* unsubscribed and not subscribed again
    turn,             \* parity of the callbacks called since the bus was made
    wsService,        \* the WebSocketService: socket, counter, timeouts, listener
    chat              \* the LLMChatModule, its input and button, its EventSources

vars == <<backlog_items, backlog_events, clarifications, sqlite_sequence, now, result, calls,
          sessions, session_events, recommendation, toast,
          listeners, stack, invoked, emit_result,
          wsManager, sockets, timers, waiting, ws_emitted, transmitted, sends,
          user_disconnected, api_call, kanban, server_board, ws_channel, http,
          handled, unsubscribed, turn, wsService, chat>>

\* The state of the event bus and of an emit, and the state of everything else.
busVars == <<listeners, stack, invoked, emit_result>>
engineVars == <<backlog_items, backlog_events, clarifications, sqlite_sequence, now, result,
                calls, sessions, session_events, recommendation, toast>>
\* The state of the browser-side clients.
wsVars == <<wsManager, sockets, timers, waiting, ws_emitted, transmitted, sends,
            user_disconnected>>
apiVars == <<api_call>>
kanbanVars == <<kanban, server_board, ws_channel, http>>
reentrantVars == <<handled, unsubscribed, turn>>
serviceVars == <<wsService>>
chatVars == <<chat>>
clientVars == <<wsVars, apiVars, kanbanVars, reentrantVars, serviceVars, chatVars>>

\* ------------------------------------------------------------ SQL helpers
\* A row with the columns named in `set` replaced (UPDATE ... SET).
SetColumns(row, set) ==
    [c \in DOMAIN row |-> IF c \in DOMAIN set THEN set[c] ELSE row[c]]

\* CHECK constraints of backlog_items.
ItemChecks(row) ==
    /\ row.priority \in Priorities
    /\ row.item_type \in ItemTypes
    /\ row.status \in Statuses

\* INTEGER PRIMARY KEY AUTOINCREMENT: one more than the largest id ever used.
NextRowIdReused(seq) == IF seq = 0 THEN 1 ELSE seq
NextRowId(seq) == seq + 1

\* The event store: the rows of backlog_events and the table's sqlite_sequence.
\* INSERT INTO backlog_events appends one row and touches no other row.
InsertEventRotating(es, item, type, data, actor, ts) ==
    [log |-> Append(IF Len(es.log) >= 2 THEN Tail(es.log) ELSE es.log,
                    [id |-> NextRowId(es.seq), item_id |-> item.id,
                     external_id |-> item.external_id, event_type |-> type,
                     event_data |-> data, actor_type |-> actor, created_at |-> ts]),
     seq |-> NextRowId(es.seq)]
InsertEvent(es, item, type, data, actor, ts) ==
    [log |-> Append(es.log,
                    [id |-> NextRowId(es.seq), item_id |-> item.id,
                     external_id |-> item.external_id, event_type |-> type,
                     event_data |-> data, actor_type |-> actor, created_at |-> ts]),
     seq |-> NextRowId(es.seq)]

\* ---------------------------------------------------------------- triggers
\* trg_backlog_updated: AFTER UPDATE ON backlog_items, unconditional.
trg_backlog_updated(row, ts) == [row EXCEPT !.updated_at = ts]

\* trg_log_status_change: AFTER UPDATE OF status WHEN OLD.status != NEW.status.
trg_log_status_change_always(es, old, new, cols, ts) ==
    IF "status" \in cols
    THEN InsertEvent(es, new, "status_changed",
                     [old_status |-> old.status, new_status |-> new.status],
                     DefaultActorType, ts)
    ELSE es
trg_log_status_change_swapped(es, old, new, cols, ts) ==
    IF "status" \in cols /\ old.status # new.status
    THEN InsertEvent(es, new, "status_changed",
                     [old_status |-> new.status, new_status |-> old.status],
                     DefaultActorType, ts)
    ELSE es
trg_log_status_change(es, old, new, cols, ts) ==
    IF "status" \in cols /\ old.status # new.status
    THEN InsertEvent(es, new, "status_changed",
                     [old_status |-> old.status, new_status |-> new.status],
                     DefaultActorType, ts)
    ELSE es

\* trg_log_priority_change: AFTER UPDATE OF priority WHEN OLD.priority != NEW.priority.
trg_log_priority_change(es, old, new, cols, ts) ==
    IF "priority" \in cols /\ old.priority # new.priority
    THEN InsertEvent(es, new, "priority_changed",
                     [old_priority |-> old.priority, new_priority |-> new.priority],
                     DefaultActorType, ts)
    ELSE es

\* trg_set_completed_at: AFTER UPDATE OF status WHEN NEW.status = 'done' AND
\* OLD.status != 'done'.  Its UPDATE fires trg_backlog_updated in turn.
trg_set_completed_at_every_write(row, old, new, cols, ts) ==
    IF "status" \in cols /\ new.status = "done"
    THEN trg_backlog_updated([row EXCEPT !.completed_at = ts], ts)
    ELSE row
trg_set_completed_at(row, old, new, cols, ts) ==
    IF "status" \in cols /\ new.status = "done" /\ old.status # "done"
    THEN trg_backlog_updated([row EXCEPT !.completed_at = ts], ts)
    ELSE row

\* UPDATE backlog_items SET <set> WHERE id = old.id, with the triggers it fires.
\* SQLite leaves the firing order of the triggers of one event undefined:
\* statusFirst picks the order of the two logging triggers.
UpdateItem(old, set, es, ts, statusFirst) ==
    LET new == SetColumns(old, set)
        cols == DOMAIN set
        row == trg_set_completed_at(trg_backlog_updated(new, ts), old, new, cols, ts)
        log == IF statusFirst
               THEN trg_log_priority_change(trg_log_status_change(es, old, new, cols, ts),
                                            old, new, cols, ts)
               ELSE trg_log_status_change(trg_log_priority_change(es, old, new, cols, ts),
                                          old, new, cols, ts)
    IN [row |-> row, es |-> log]

\* INSERT INTO backlog_items: column defaults; no trigger is defined on INSERT.
InsertItem(id, title, priority, status, ts) ==
    [id |-> id, external_id |-> id, title |-> title,
     priority |-> IF priority = Omitted THEN DefaultPriority ELSE priority,
     item_type |-> DefaultItemType,
     status |-> IF status = Omitted THEN DefaultStatus ELSE status,
     created_at |-> ts, updated_at |-> ts, completed_at |-> NULL]

\* INSERT INTO clarifications.
InsertClarification(id, item_id, question, ts) ==
    [id |-> id, item_id |-> item_id, question |-> question, answer |-> NullText,
     asked_at |-> ts, answered_at |-> NULL]

\* ----------------------------------------------------- item state machine
Terminal == {"done", "cancelled"}

\* Position of a status in the chain open -> needs_clarification ->
\* in_progress -> blocked -> done.
Rank(s) ==
    CASE s = "open" -> 1
      [] s = "needs_clarification" -> 2
      [] s = "in_progress" -> 3
      [] s = "blocked" -> 4
      [] s = "done" -> 5
      [] OTHER -> 6

\* The transition table a request may use: forward along the chain,
\* blocked -> in_progress, cancelled from any non-terminal state, cancelled ->
\* open (reopen); nothing leaves done.  needs_clarification -> open is not a
\* requested change: answering the last open clarification performs it.
LegalTransitionLax(from, to) ==
    \/ from \notin {"cancelled"} /\ to = "cancelled"
    \/ from \notin {"cancelled"} /\ to # "cancelled" /\ from # to
    \/ from = "cancelled" /\ to = "open"
LegalTransition(from, to) ==
    \/ from \notin Terminal /\ to = "cancelled"
    \/ from \notin Terminal /\ to # "cancelled" /\ Rank(from) < Rank(to)
    \/ from = "blocked" /\ to = "in_progress"
    \/ from = "cancelled" /\ to = "open"

\* A request may keep the stored status (a duplicate) or ask for a legal change.
StatusAccepted(from, to) == to = from \/ LegalTransition(from, to)

\* ------------------------------------------------------------- projections
EventStore == [log |-> backlog_events, seq |-> sqlite_sequence.backlog_events]
ItemIds == DOMAIN backlog_items
ClarIds == DOMAIN clarifications
OpenClarifications(cl, item_id) ==
    {c \in DOMAIN cl : cl[c].item_id = item_id /\ cl[c].answer = NullText}

\* v_needs_clarification: the join of backlog_items and clarifications WHERE
\* b.status = 'needs_clarification' AND c.answer IS NULL.  ORDER BY c.asked_at
\* arranges the rows and selects none, so the view is modelled by its row set.
v_needs_clarification ==
    {[external_id |-> backlog_items[clarifications[c].item_id].external_id,
      title |-> backlog_items[clarifications[c].item_id].title,
      question |-> clarifications[c].question,
      asked_at |-> clarifications[c].asked_at] :
        c \in {k \in ClarIds :
                 /\ clarifications[k].item_id \in ItemIds
                 /\ backlog_items[clarifications[k].item_id].status = "needs_clarification"
                 /\ clarifications[k].answer = NullText}}

\* An answer reopens the item when no clarification of the item is left open.
NoneLeftOpenNever(cl, item_id) == FALSE
NoneLeftOpen(cl, item_id) == OpenClarifications(cl, item_id) = {}

Outcome(op, id, code, value) == [code |-> code, value |-> value]

\* The columns a patch sets: the fields it carries.
PatchSet(title, priority, status) ==
    LET t == IF title = Omitted THEN <<>> ELSE [x \in {"title"} |-> title]
        p == IF priority = Omitted THEN <<>> ELSE [x \in {"priority"} |-> priority]
        s == IF status = Omitted THEN <<>> ELSE [x \in {"status"} |-> status]
    IN t @@ p @@ s

\* Writes an item patch that was accepted: the UPDATE with its triggers, then
\* one field_updated event per changed field group and a completed event when
\* the write took the item into done.
ApplyPatch(old, set, es, ts, statusFirst) ==
    LET u == UpdateItem(old, set, es, ts, statusFirst)
        e1 == IF "title" \in DOMAIN set /\ set.title # old.title
              THEN InsertEvent(u.es, u.row, "field_updated",
                               [field |-> "title", value |-> set.title], "user", ts)
              ELSE u.es
        e2 == IF old.status # "done" /\ u.row.status = "done"
              THEN InsertEvent(e1, u.row, "completed", [completed_at |-> ts], "user", ts)
              ELSE e1
    IN [row |-> u.row, es |-> e2]

\* sqlite_sequence after rows with the given ids exist: the largest id ever used.
SequenceAfter(seq, ids) ==
    IF \E k \in ids : k > seq THEN CHOOSE m \in ids : \A k \in ids : m >= k ELSE seq

\* The effect of a request on the database and on the caller.
Commit(items, es, cl, out) ==
    /\ Len(es.log) <= MaxEvents
    /\ backlog_items' = items
    /\ backlog_events' = es.log
    /\ clarifications' = cl
    /\ sqlite_sequence' =
          [backlog_items |-> SequenceAfter(sqlite_sequence.backlog_items, DOMAIN items),
           backlog_events |-> es.seq,
           clarifications |-> SequenceAfter(sqlite_sequence.clarifications, DOMAIN cl)]
    /\ result' = out
    /\ UNCHANGED <<sessions, session_events, recommendation, toast>>
    /\ UNCHANGED busVars
    /\ UNCHANGED clientVars

\* A request that fails: nothing is written.
Reject(out) ==
    /\ result' = out
    /\ UNCHANGED <<backlog_items, backlog_events, clarifications, sqlite_sequence>>
    /\ UNCHANGED <<sessions, session_events, recommendation, toast>>
    /\ UNCHANGED busVars
    /\ UNCHANGED clientVars

\* --------------------------------------------------------------- requests
\* create(fields): title required; priority, type and status default.
create(title, priority, status) ==
    /\ UNCHANGED <<now, calls>>
    /\ IF title = Omitted
       THEN Reject(Outcome("create", 0, "ValidationError", NullText))
       ELSE LET id == NextRowId(sqlite_sequence.backlog_items)
                row == InsertItem(id, title, priority, status, now)
                es == InsertEvent(EventStore, row, "created",
                                  [title |-> row.title, priority |-> row.priority,
                                   status |-> row.status], "user", now)
            IN /\ id <= MaxItems
               /\ ItemChecks(row)
               /\ Commit(backlog_items @@ (id :> row), es, clarifications,
                         Outcome("create", id, "ok", NullText))

\* create(fields) on an empty backlog.
createFirst(title, priority, status) ==
    /\ ItemIds = {}
    /\ create(title, priority, status)

\* update(id, patch).
updateItem(op, id, title, priority, status, statusFirst) ==
    IF id \notin ItemIds
    THEN Reject(Outcome(op, id, "NotFound", NullText))
    ELSE LET old == backlog_items[id] IN
         IF status # Omitted /\ ~StatusAccepted(old.status, status)
         THEN Reject(Outcome(op, id, "InvalidTransition", NullText))
         ELSE LET r == ApplyPatch(old, PatchSet(title, priority, status), EventStore,
                                  now, statusFirst)
              IN Commit([backlog_items EXCEPT ![id] = r.row], r.es, clarifications,
                        Outcome(op, id, "ok", NullText))

update(id, title, priority, status, statusFirst) ==
    /\ \/ title # Omitted /\ priority = Omitted
       \/ title = Omitted /\ priority # Omitted /\ status # Omitted
    /\ statusFirst \/ (status # Omitted /\ priority # Omitted)
    /\ UNCHANGED <<now, calls>>
    /\ updateItem("update", id, title, priority, status, statusFirst)

\* changeStatus(id, status).
changeStatus(id, status) ==
    /\ UNCHANGED <<now, calls>>
    /\ updateItem("changeStatus", id, Omitted, Omitted, status, TRUE)

\* One of the concurrent callers marks the item done; SQLite serialises the
\* writers, so each call runs as one step, in either order.
markDone(caller, id) ==
    /\ calls[caller] = "idle"
    /\ UNCHANGED now
    /\ updateItem("changeStatus", id, Omitted, Omitted, "done", TRUE)
    /\ calls' = [calls EXCEPT ![caller] = result'.code]

\* changePriority(id, priority).
changePriority(id, priority) ==
    /\ UNCHANGED <<now, calls>>
    /\ updateItem("changePriority", id, Omitted, priority, Omitted, TRUE)

\* DELETE /backlog/{id}: removal is the transition to cancelled.
deleteTaskPhysical(id) ==
    /\ UNCHANGED <<now, calls>>
    /\ IF id \notin ItemIds
       THEN Reject(Outcome("delete", id, "NotFound", NullText))
       ELSE Commit([k \in ItemIds \ {id} |-> backlog_items[k]], EventStore,
                   clarifications, Outcome("delete", id, "ok", NullText))
deleteTask(id) ==
    /\ UNCHANGED <<now, calls>>
    /\ updateItem("delete", id, Omitted, Omitted, "cancelled", TRUE)

\* ask(item_id, question, thread_ref).
ask(id, question) ==
    /\ UNCHANGED <<now, calls>>
    /\ IF id \notin ItemIds
       THEN Reject(Outcome("ask", id, "NotFound", NullText))
       ELSE LET old == backlog_items[id] IN
            IF old.status \in Terminal
            THEN Reject(Outcome("ask", id, "InvalidTransition", NullText))
            ELSE LET cid == NextRowId(sqlite_sequence.clarifications)
                     u == UpdateItem(old, [x \in {"status"} |-> "needs_clarification"],
                                     EventStore, now, TRUE)
                     es == InsertEvent(u.es, u.row, "clarification_asked",
                                       [clarification |-> cid, question |-> question],
                                       "llm", now)
                 IN /\ cid <= MaxClar
                    /\ Commit([backlog_items EXCEPT ![id] = u.row], es,
                              clarifications @@
                                (cid :> InsertClarification(cid, id, question, now)),
                              Outcome("ask", cid, "ok", NullText))

\* answer(item_id, question_ref, answer_text).
answerOverwriting(cid, text) ==
    /\ UNCHANGED <<now, calls>>
    /\ IF cid \notin ClarIds
       THEN Reject(Outcome("answer", cid, "NotFound", NullText))
       ELSE LET c == clarifications[cid]
                cl == [clarifications EXCEPT ![cid].answer = text,
                                             ![cid].answered_at = now]
                old == backlog_items[c.item_id]
                e1 == InsertEvent(EventStore, old, "clarification_answered",
                                  [clarification |-> cid, answer |-> text], "user", now)
            IN Commit(backlog_items, e1, cl, Outcome("answer", cid, "ok", text))
answer(cid, text) ==
    /\ UNCHANGED <<now, calls>>
    /\ IF cid \notin ClarIds
       THEN Reject(Outcome("answer", cid, "NotFound", NullText))
       ELSE LET c == clarifications[cid] IN
            IF c.answer # NullText
            THEN Reject(Outcome("answer", cid, "ok", c.answer))
            ELSE LET cl == [clarifications EXCEPT ![cid].answer = text,
                                                  ![cid].answered_at = now]
                     old == backlog_items[c.item_id]
                     e1 == InsertEvent(EventStore, old, "clarification_answered",
                                       [clarification |-> cid, answer |-> text],
                                       "user", now)
                     u == IF NoneLeftOpen(cl, c.item_id)
                             /\ old.status = "needs_clarification"
                          THEN UpdateItem(old, [x \in {"status"} |-> "open"], e1, now, TRUE)
                          ELSE [row |-> old, es |-> e1]
                 IN Commit([backlog_items EXCEPT ![c.item_id] = u.row], u.es, cl,
                           Outcome("answer", cid, "ok", text))

\* CURRENT_TIMESTAMP advances.
Tick ==
    /\ now < MaxTime
    /\ now' = now + 1
    /\ UNCHANGED <<backlog_items, backlog_events, clarifications, sqlite_sequence,
                   result, calls, sessions, session_events, recommendation, toast>>
    /\ UNCHANGED busVars
    /\ UNCHANGED clientVars

\* ---------------------------------------------------------- what next
\* ORDER BY CASE priority WHEN 'P0' THEN 1 ... WHEN 'P3' THEN 4 END.
PriorityRank(p) ==
    CASE p = "P0" -> 1
      [] p = "P1" -> 2
      [] p = "P2" -> 3
      [] p = "P3" -> 4

\* WHERE status NOT IN ('done', 'cancelled').
ActiveItemsAll == ItemIds
ActiveItems == {i \in ItemIds : backlog_items[i].status \notin {"done", "cancelled"}}

\* The columns of v_active_by_priority that the model of backlog_items has.
ActiveRow(i) ==
    [external_id |-> backlog_items[i].external_id, title |-> backlog_items[i].title,
     priority |-> backlog_items[i].priority, status |-> backlog_items[i].status,
     created_at |-> backlog_items[i].created_at]

\* The ORDER BY terms of v_active_by_priority: priority rank, then created_at.
OrderedBefore(a, b) ==
    \/ PriorityRank(a.priority) < PriorityRank(b.priority)
    \/ PriorityRank(a.priority) = PriorityRank(b.priority) /\ a.created_at <= b.created_at

\* All arrangements of a set of ids.
Arrangements(ids) ==
    {f \in [1..Cardinality(ids) -> ids] : \A k, l \in DOMAIN f : k # l => f[k] # f[l]}

\* v_active_by_priority: the row sequences SQLite may return.  Rows that are
\* equal in every ORDER BY term come in an order SQL leaves unspecified.
v_active_by_priority ==
    {[k \in DOMAIN f |-> ActiveRow(f[k])] :
        f \in {g \in Arrangements(ActiveItems) :
                 \A k, l \in DOMAIN g :
                    k < l => OrderedBefore(ActiveRow(g[k]), ActiveRow(g[l]))}}

NoRecommendation == [external_id |-> 0]
NothingActionable == "nothing actionable"

\* next(context): the best item of the ranking, or the nothing-actionable signal.
next(ranking) ==
    IF ranking = <<>>
    THEN [recommendation |-> NoRecommendation, message |-> NothingActionable]
    ELSE [recommendation |-> ranking[1], message |-> NullText]

\* DashboardComponent.whatNext: GET /prioritize/next; a recommendation is
\* shown, anything else is toasted.
whatNext ==
    /\ \E ranking \in v_active_by_priority :
          LET response == next(ranking) IN
          IF response.recommendation # NoRecommendation
          THEN recommendation' = response.recommendation /\ toast' = toast
          ELSE toast' = response.message /\ recommendation' = recommendation
    /\ UNCHANGED <<backlog_items, backlog_events, clarifications, sqlite_sequence, now,
                   result, calls, sessions, session_events>>
    /\ UNCHANGED busVars
    /\ UNCHANGED clientVars

\* ------------------------------------------------- session state machine
SessionStates == {"idle", "working", "waiting_for_approval", "waiting_for_input",
                  "paused", "completed", "failed"}
SessionTerminal == {"completed", "failed"}

\* The states each operation is legal from.
StartFrom == {"idle"}
RequestApprovalFrom == {"working"}
ResolveApprovalFrom == {"waiting_for_approval"}
PauseFromAny == SessionStates
PauseFrom == {"working"}
ResumeFromGate == {"paused", "waiting_for_approval"}
ResumeFrom == {"paused"}
FinishFromWorking == {"working"}
FinishFrom == SessionStates \ SessionTerminal

\* The state an approval decision leads to.
ResolvedStateDenyPauses(approved) == IF approved THEN "working" ELSE "paused"
ResolvedState(approved) == IF approved THEN "working" ELSE "failed"

SessionIds == DOMAIN sessions

\* A session request that fails: nothing is written.
RejectSession(code) ==
    /\ result' = Outcome("session", 0, code, NullText)
    /\ UNCHANGED <<sessions, session_events>>

\* One transition: the session row and its event are written together, or,
\* when the store cannot be written, neither.
WriteSessionRowFirst(id, row, type, data, storeOk) ==
    /\ Len(session_events) < MaxEvents
    /\ sessions' = (id :> row) @@ sessions
    /\ IF storeOk
       THEN /\ session_events' = Append(session_events,
                                        [seq |-> Len(session_events) + 1, session_id |-> id,
                                         event_type |-> type, event_data |-> data,
                                         state |-> row.state, created_at |-> now])
            /\ result' = Outcome("session", id, "ok", NullText)
       ELSE /\ session_events' = session_events
            /\ result' = Outcome("session", id, "StoreUnavailable", NullText)
WriteSession(id, row, type, data, storeOk) ==
    IF storeOk
    THEN /\ Len(session_events) < MaxEvents
         /\ sessions' = (id :> row) @@ sessions
         /\ session_events' = Append(session_events,
                                     [seq |-> Len(session_events) + 1, session_id |-> id,
                                      event_type |-> type, event_data |-> data,
                                      state |-> row.state, created_at |-> now])
         /\ result' = Outcome("session", id, "ok", NullText)
    ELSE RejectSession("StoreUnavailable")

\* A transition of an existing session, legal from the states in `from`.
SessionTransition(id, from, to, type, data, storeOk) ==
    /\ UNCHANGED <<backlog_items, backlog_events, clarifications, sqlite_sequence, now, calls,
                   recommendation, toast>>
    /\ UNCHANGED busVars
    /\ UNCHANGED clientVars
    /\ IF id \notin SessionIds
       THEN RejectSession("NotFound")
       ELSE IF sessions[id].state \notin from
            THEN RejectSession("InvalidTransition")
            ELSE WriteSession(id, [sessions[id] EXCEPT !.state = to], type, data, storeOk)

\* create(session_id, project_id, goal, agent_type).
createSession(id, storeOk) ==
    /\ UNCHANGED <<backlog_items, backlog_events, clarifications, sqlite_sequence, now, calls,
                   recommendation, toast>>
    /\ UNCHANGED busVars
    /\ UNCHANGED clientVars
    /\ IF id \in SessionIds
       THEN RejectSession("Conflict")
       ELSE WriteSession(id, [session_id |-> id, state |-> "idle"], "created",
                         NullText, storeOk)

\* start(id).
startSession(id, storeOk) ==
    SessionTransition(id, StartFrom, "working", "started", NullText, storeOk)

\* requestApproval(id, reason).
requestApproval(id, storeOk) ==
    SessionTransition(id, RequestApprovalFrom, "waiting_for_approval",
                      "approval_requested", NullText, storeOk)

\* resolveApproval(id, approved, reason).
approveSession(id, approved, storeOk) ==
    SessionTransition(id, ResolveApprovalFrom, ResolvedState(approved),
                      "approval_resolved", IF approved THEN "approved" ELSE "denied",
                      storeOk)

\* pause(id) and resume(id).
pauseSession(id, storeOk) ==
    SessionTransition(id, PauseFrom, "paused", "paused", NullText, storeOk)
resumeSession(id, storeOk) ==
    SessionTransition(id, ResumeFrom, "working", "resumed", NullText, storeOk)

\* complete(id, result) and fail(id, error).
completeSession(id, storeOk) ==
    SessionTransition(id, FinishFrom, "completed", "completed", NullText, storeOk)
failSession(id, storeOk) ==
    SessionTransition(id, FinishFrom, "failed", "failed", NullText, storeOk)

\* ---------------------------------------------------------------- event bus
\* The wildcard event name.
Wildcard == "*"

\* A JavaScript Set of callbacks in insertion order: add and delete.
SetAdd(set, x) == IF \E k \in 1..Len(set) : set[k] = x THEN set ELSE Append(set, x)
SetDelete(set, x) == SelectSeq(set, LAMBDA y : y # x)

\* this.listeners.has(event) ? this.listeners.get(event) : nothing to visit.
ListenersOf(event) == IF event \in DOMAIN listeners THEN listeners[event] ELSE <<>>

\* on(event, callback), called while no emit is running.
on(event, callback) ==
    /\ stack = <<>>
    /\ listeners' = IF event \in DOMAIN listeners
                     THEN [listeners EXCEPT ![event] = SetAdd(@, callback)]
                     ELSE (event :> <<callback>>) @@ listeners
    /\ UNCHANGED <<stack, invoked, emit_result>>
    /\ UNCHANGED engineVars
    /\ UNCHANGED clientVars

\* off(event, callback), called while no emit is running.
off(event, callback) ==
    /\ stack = <<>>
    /\ listeners' = IF event \in DOMAIN listeners
                     THEN [listeners EXCEPT ![event] = SetDelete(@, callback)]
                     ELSE listeners
    /\ UNCHANGED <<stack, invoked, emit_result>>
    /\ UNCHANGED engineVars
    /\ UNCHANGED clientVars

\* emit(event, data) is entered: first the listeners of the event are
\* visited, then the wildcard listeners.
emit(event, data) ==
    /\ stack = <<>>
    /\ stack' = <<[event |-> event, data |-> data, phase |-> "event", pos |-> 1]>>
    /\ invoked' = <<>>
    /\ emit_result' = "running"
    /\ UNCHANGED listeners
    /\ UNCHANGED engineVars
    /\ UNCHANGED clientVars

\* The Set the innermost emit is visiting and the argument it passes.
Visiting(frame) ==
    ListenersOf(IF frame.phase = "event" THEN frame.event ELSE Wildcard)
ArgumentWithoutEvent(frame) ==
    IF frame.phase = "event" THEN frame.data
    ELSE [event |-> Wildcard, data |-> frame.data]
Argument(frame) ==
    IF frame.phase = "event" THEN frame.data
    ELSE [event |-> frame.event, data |-> frame.data]

\* try { callback(...) } catch (error) { console.error(...) }: the forEach
\* goes on to the next callback whether the callback returned or threw.
AfterCallbackUncaught(frames, threw) ==
    IF threw
    THEN [stack |-> <<>>, emit_result |-> "threw"]
    ELSE [stack |-> [frames EXCEPT ![Len(frames)].pos = @ + 1], emit_result |-> "running"]
AfterCallback(frames, threw) ==
    [stack |-> [frames EXCEPT ![Len(frames)].pos = @ + 1], emit_result |-> "running"]

\* The forEach of the innermost emit calls its next callback, which returns
\* or throws.
callback(threw) ==
    /\ stack # <<>>
    /\ LET frame == stack[Len(stack)] IN
       /\ frame.pos <= Len(Visiting(frame))
       /\ invoked' = Append(invoked, [callback |-> Visiting(frame)[frame.pos],
                                      phase |-> frame.phase,
                                      argument |-> Argument(frame),
                                      threw |-> threw])
       /\ stack' = AfterCallback(stack, threw).stack
       /\ emit_result' = AfterCallback(stack, threw).emit_result
    /\ UNCHANGED listeners
    /\ UNCHANGED engineVars
    /\ UNCHANGED clientVars

\* A forEach of the innermost emit is through: the emit goes on to the
\* wildcard listeners, or returns.
emitContinue ==
    /\ stack # <<>>
    /\ LET frame == stack[Len(stack)] IN
       /\ frame.pos > Len(Visiting(frame))
       /\ IF frame.phase = "event"
          THEN /\ stack' = [stack EXCEPT ![Len(stack)].phase = "wildcard",
                                         ![Len(stack)].pos = 1]
               /\ emit_result' = emit_result
          ELSE /\ stack' = SubSeq(stack, 1, Len(stack) - 1)
               /\ emit_result' = "returned"
    /\ UNCHANGED <<listeners, invoked>>
    /\ UNCHANGED engineVars
    /\ UNCHANGED clientVars

\* ------------------------------------------------ callbacks that use the bus
\* The bus while a callback runs: the listeners and the emits in progress.
\* A Set's forEach visits the entries in insertion order, entries added
\* during the visit included and entries deleted before their turn left
\* out; `pos` is the place of the next entry to visit, so it moves back when
\* an entry before it is deleted.
Bus == [listeners |-> listeners, stack |-> stack]
VisitedEvent(frame) == IF frame.phase = "event" THEN frame.event ELSE Wildcard
IndexOf(set, x) == IF \E k \in 1..Len(set) : set[k] = x
                   THEN CHOOSE k \in 1..Len(set) : set[k] = x
                   ELSE 0

\* this.listeners.get(event).add(callback) and .delete(callback).
OnIn(b, event, cb) ==
    [b EXCEPT !.listeners = IF event \in DOMAIN @
                            THEN [@ EXCEPT ![event] = SetAdd(@, cb)]
                            ELSE (event :> <<cb>>) @@ @]
OffInAfterEmit(b, event, cb) ==
    IF b.stack # <<>> \/ event \notin DOMAIN b.listeners THEN b
    ELSE [b EXCEPT !.listeners[event] = SetDelete(@, cb)]
OffIn(b, event, cb) ==
    IF event \notin DOMAIN b.listeners \/ IndexOf(b.listeners[event], cb) = 0 THEN b
    ELSE LET i == IndexOf(b.listeners[event], cb) IN
         [listeners |-> [b.listeners EXCEPT ![event] = SetDelete(@, cb)],
          stack |-> [k \in DOMAIN b.stack |->
                       IF VisitedEvent(b.stack[k]) = event /\ i < b.stack[k].pos
                       THEN [b.stack[k] EXCEPT !.pos = @ - 1]
                       ELSE b.stack[k]]]

\* What the callbacks given to once do when they are called for `frame`.
OnceCallback(b, cb, frame) ==
    IF cb = "w"
    THEN [b EXCEPT !.stack = Append(@, [event |-> frame.event, data |-> frame.data,
                                        phase |-> "event", pos |-> 1])]
    ELSE OnIn(b, VisitedEvent(frame), cb)

\* The wrapper of once: this.off(event, wrapper); callback(...args).
WrapperKeepsItself(b, cb, frame) == OnceCallback(b, cb, frame)
Wrapper(b, cb, frame) == OnceCallback(OffIn(b, VisitedEvent(frame), cb), cb, frame)

\* The callback cb called by the forEach for `frame`.
Called(b, cb, frame) ==
    IF cb \in OnceCallbacks THEN Wrapper(b, cb, frame)
    ELSE IF cb = "u" THEN OffIn(b, VisitedEvent(frame), "f")
    ELSE b

BusStep(b) ==
    /\ listeners' = b.listeners
    /\ stack' = b.stack
    /\ UNCHANGED <<invoked, emit_result>>
    /\ UNCHANGED engineVars
    /\ UNCHANGED <<wsVars, apiVars, kanbanVars, serviceVars, chatVars>>

\* on(event, callback): the caller keeps the unsubscribe function.
subscribe(event, cb) ==
    /\ stack = <<>>
    /\ BusStep(OnIn(Bus, event, cb))
    /\ unsubscribed' = {p \in unsubscribed : <<p[1], p[2]>> # <<event, cb>>}
    /\ UNCHANGED <<handled, turn>>

\* The unsubscribe function returned by on(event, callback) is called.
unsubscribe(event, cb) ==
    /\ stack = <<>>
    /\ BusStep(OffIn(Bus, event, cb))
    /\ unsubscribed' = unsubscribed \cup {<<event, cb, FALSE>>}
    /\ UNCHANGED <<handled, turn>>

\* once(event, callback): a new wrapper is subscribed.  One wrapper of a
\* callback is subscribed at a time.
once(event, cb) ==
    /\ stack = <<>>
    /\ \A e \in DOMAIN listeners : IndexOf(listeners[e], cb) = 0
    /\ BusStep(OnIn(Bus, event, cb))
    /\ handled' = [handled EXCEPT ![cb] = 0]
    /\ UNCHANGED <<unsubscribed, turn>>

\* The forEach of the innermost emit calls its next callback, cb.
handler(cb) ==
    /\ stack # <<>>
    /\ LET frame == stack[Len(stack)] IN
       /\ frame.pos <= Len(Visiting(frame))
       /\ Visiting(frame)[frame.pos] = cb
       /\ LET b == Called([Bus EXCEPT !.stack[Len(stack)].pos = @ + 1], cb, frame) IN
          /\ Len(b.stack) <= MaxDepth
          /\ BusStep(b)
       /\ unsubscribed' =
             IF cb = "u"
             THEN unsubscribed \cup
                  {<<VisitedEvent(frame), "f",
                     \E k \in 1..Len(stack) :
                        /\ VisitedEvent(stack[k]) = VisitedEvent(frame)
                        /\ IndexOf(Visiting(frame), "f") >= stack[k].pos
                        /\ IndexOf(Visiting(frame), "f") # frame.pos>>}
             ELSE unsubscribed
    /\ turn' = 1 - turn
    /\ handled' = IF cb = "w"
                  THEN [handled EXCEPT ![cb] = IF @ < 2 THEN @ + 1 ELSE @]
                  ELSE handled

\* --------------------------------------------------------- websocket manager
\* The constructor's settings.
maxReconnectAttempts == 10
reconnectDelay == 1000
maxReconnectDelay == 30000

\* The manager, the browser's sockets and timers and the promises waiting on
\* the event bus, at the start of a handler; the handler's own emits and
\* transmissions are collected in `emitted` and `transmitted`.  `ok` is FALSE
\* when the handler would pass a cap of the model.
World ==
    [m |-> wsManager, sockets |-> sockets, timers |-> timers, waiting |-> waiting,
     emitted |-> <<>>, transmitted |-> <<>>, ok |-> TRUE]

\* readyState of a WebSocket object; an object that fired its close event is
\* CLOSED and is dropped from `sockets`.
ReadyState(w, s) == IF s \in DOMAIN w.sockets THEN w.sockets[s].readyState ELSE "CLOSED"

\* this.ws?.readyState === WebSocket.OPEN
IsOpen(w) == w.m.ws # 0 /\ ReadyState(w, w.m.ws) = "OPEN"

\* eventBus.emit(event): connect() calls that wait with eventBus.once on
\* ws:connected and ws:error are settled by either event.
Emit(w, event) ==
    [w EXCEPT !.emitted = Append(@, event),
              !.waiting = IF event \in {"ws:connected", "ws:error"} THEN 0 ELSE @]

\* connect(): nothing to do on an open socket; waits on the event bus while
\* a connection attempt is in progress; creates a WebSocket otherwise.
Connect(w) ==
    IF IsOpen(w) THEN w
    ELSE IF w.m.isConnecting
    THEN [w EXCEPT !.waiting = @ + 1, !.ok = @ /\ w.waiting < MaxWaiting]
    ELSE LET free == (1..MaxSockets) \ DOMAIN w.sockets IN
         IF free = {} THEN [w EXCEPT !.ok = FALSE]
         ELSE LET s == CHOOSE x \in free : \A y \in free : x <= y IN
              [w EXCEPT !.m.isConnecting = TRUE,
                        !.m.ws = s,
                        !.sockets = (s :> [readyState |-> "CONNECTING",
                                           established |-> FALSE]) @@ @]

\* flushQueue(): shifts the queue into this.ws while it is open.
FlushQueue(w) ==
    IF IsOpen(w)
    THEN [w EXCEPT !.transmitted =
                      @ \o [k \in DOMAIN w.m.messageQueue |->
                               [socket |-> w.m.ws, message |-> w.m.messageQueue[k]]],
                   !.m.messageQueue = <<>>]
    ELSE w

\* Math.min(reconnectDelay * Math.pow(2, reconnectAttempts), maxReconnectDelay)
ReconnectDelayUncapped(k) == reconnectDelay * 2^k
ReconnectDelay(k) ==
    IF reconnectDelay * 2^k < maxReconnectDelay
    THEN reconnectDelay * 2^k
    ELSE maxReconnectDelay

\* attemptReconnect(): gives up at maxReconnectAttempts, otherwise announces
\* the reconnect and sets the timeout.
AttemptReconnect(w) ==
    IF w.m.reconnectAttempts >= maxReconnectAttempts
    THEN Emit(w, "ws:reconnect_failed")
    ELSE [Emit(w, "ws:reconnecting") EXCEPT
             !.timers = Append(@, ReconnectDelay(w.m.reconnectAttempts)),
             !.ok = @ /\ Len(w.timers) < MaxTimers]

\* ws.onopen of socket s.
OnOpen(w, s) ==
    Emit(FlushQueue([w EXCEPT !.sockets[s].readyState = "OPEN",
                              !.sockets[s].established = TRUE,
                              !.m.isConnecting = FALSE,
                              !.m.reconnectAttempts = 0,
                              !.m.shouldReconnect = TRUE]),
         "ws:connected")

\* ws.onerror.
OnError(w) == Emit([w EXCEPT !.m.isConnecting = FALSE], "ws:error")

\* ws.onclose.
OnClose(w, wasClean) ==
    LET w1 == Emit([w EXCEPT !.m.isConnecting = FALSE], "ws:disconnected") IN
    IF w1.m.shouldReconnect /\ ~wasClean THEN AttemptReconnect(w1) ELSE w1

\* Socket s has closed: no event of it is left to fire.
Closed(w, s) == [w EXCEPT !.sockets = [k \in DOMAIN @ \ {s} |-> @[k]]]

\* handleMessage(data): pong is swallowed, a typed message is re-emitted as
\* ws:<type> and ws:message.
HandleMessage(w, type) ==
    IF type = "pong" THEN w
    ELSE IF type # "" THEN Emit(Emit(w, "ws:" \o type), "ws:message")
    ELSE w

\* send(type, payload): transmits on an open socket; otherwise queues the
\* message and connects unless a connection attempt is in progress.
Send(w, message) ==
    IF IsOpen(w)
    THEN [w EXCEPT !.transmitted = Append(@, [socket |-> w.m.ws, message |-> message])]
    ELSE LET w1 == [w EXCEPT !.m.messageQueue = Append(@, message)] IN
         IF ~w1.m.isConnecting THEN Connect(w1) ELSE w1

\* disconnect(): this.ws.close(1000, ...) starts the closing handshake of a
\* connecting or open socket; this.ws = null.
Disconnect(w) ==
    LET w1 == [w EXCEPT !.m.shouldReconnect = FALSE] IN
    IF w1.m.ws = 0 THEN w1
    ELSE [w1 EXCEPT !.sockets = [k \in DOMAIN @ |->
                                   IF k = w.m.ws THEN [@[k] EXCEPT !.readyState = "CLOSING"]
                                   ELSE @[k]],
                    !.m.ws = 0]

\* A handler of the manager ran to its end.
Apply(w) ==
    /\ w.ok
    /\ wsManager' = w.m
    /\ sockets' = w.sockets
    /\ timers' = w.timers
    /\ waiting' = w.waiting
    /\ ws_emitted' = w.emitted
    /\ transmitted' = w.transmitted
    /\ UNCHANGED engineVars
    /\ UNCHANGED busVars
    /\ UNCHANGED apiVars
    /\ UNCHANGED kanbanVars
    /\ UNCHANGED reentrantVars
    /\ UNCHANGED serviceVars
    /\ UNCHANGED chatVars

\* The client calls connect(), send(type, payload) or disconnect().
connect ==
    /\ Apply(Connect(World))
    /\ user_disconnected' = FALSE
    /\ UNCHANGED sends
send ==
    /\ sends < MaxSends
    /\ Apply(Send(World, sends + 1))
    /\ sends' = sends + 1
    /\ user_disconnected' = FALSE
disconnect ==
    /\ Apply(Disconnect(World))
    /\ user_disconnected' = TRUE
    /\ UNCHANGED sends

\* The connection of socket s is established.
onopen(s) ==
    /\ s \in DOMAIN sockets
    /\ sockets[s].readyState = "CONNECTING"
    /\ Apply(OnOpen(World, s))
    /\ UNCHANGED <<sends, user_disconnected>>

\* The connection of socket s fails: the browser fires error and then close
\* (wasClean false) on the closed socket.
onerror(s) ==
    /\ s \in DOMAIN sockets
    /\ Apply(OnClose(OnError(Closed(World, s)), FALSE))
    /\ UNCHANGED <<sends, user_disconnected>>

\* The server starts the closing handshake on the open socket s: the browser
\* sets readyState to CLOSING and fires the close event in a later task.
closing(s) ==
    /\ s \in DOMAIN sockets
    /\ sockets[s].readyState = "OPEN"
    /\ Apply([World EXCEPT !.sockets[s].readyState = "CLOSING"])
    /\ UNCHANGED <<sends, user_disconnected>>

\* The closing handshake of an established connection completes: close with
\* wasClean true.
onclose(s) ==
    /\ s \in DOMAIN sockets
    /\ sockets[s].established
    /\ Apply(OnClose(Closed(World, s), TRUE))
    /\ UNCHANGED <<sends, user_disconnected>>

\* A server message arrives on the open socket s.
onmessage(s, type) ==
    /\ s \in DOMAIN sockets
    /\ sockets[s].readyState = "OPEN"
    /\ Apply(HandleMessage(World, type))
    /\ UNCHANGED <<sends, user_disconnected>>

\* The k-th pending reconnect timeout fires: reconnectAttempts++, connect().
\* A timeout set earlier with a delay that is not longer has fired before.
reconnectTimer(k) ==
    /\ k \in DOMAIN timers
    /\ \A j \in 1..(k - 1) : timers[j] > timers[k]
    /\ wsManager.reconnectAttempts < MaxAttempts
    /\ Apply(Connect([World EXCEPT
                         !.timers = SubSeq(timers, 1, k - 1) \o SubSeq(timers, k + 1, Len(timers)),
                         !.m.reconnectAttempts = @ + 1]))
    /\ UNCHANGED <<sends, user_disconnected>>

\* ------------------------------------------------------- ApiClient.request
\* What fetch(url, config) gives: a rejection (no response), or a Response
\* with a status, a content-type header and a body that is a JSON object,
\* the JSON value null, text that is no JSON, or cut off while it is read.
Methods == {"GET", "POST", "PUT", "PATCH", "DELETE"}
HttpStatuses == {200, 201, 400, 404, 500}
ContentTypes == {"application/json", "text/plain", "none"}
Bodies == {"object", "null", "text", "interrupted"}
NoResponse == [received |-> FALSE, status |-> 0, contentType |-> "none", body |-> "interrupted"]
Responses == [received : {TRUE}, status : HttpStatuses, contentType : ContentTypes, body : Bodies]

\* new ApiError(message, status, data), and a returned value.
ApiError(status) == [kind |-> "ApiError", status |-> status]
Returned(status) == [kind |-> "returned", status |-> status]
NoOutcome == [kind |-> "none", status |-> 0]

\* error.isNetworkError()
isNetworkError(error) == error.kind = "ApiError" /\ error.status = 0

\* response.ok; whether response.json() and response.text() resolve.
ResponseOk(r) == r.status \in 200..299
JsonResolves(r) == r.body \in {"object", "null"}
TextResolves(r) == r.body # "interrupted"

\* request(endpoint, options) once fetch has settled with r.  Whatever is
\* thrown inside the try block and is no ApiError is rethrown as
\* ApiError(..., 0, ...).
RequestOutcome(r) ==
    IF ~r.received THEN ApiError(0)
    ELSE IF ~ResponseOk(r)
    THEN \* errorData = await response.json().catch(() => ({}))
         IF JsonResolves(r) /\ r.body = "null"
         THEN ApiError(0)    \* errorData.detail of null throws a TypeError
         ELSE ApiError(r.status)
    ELSE IF r.contentType = "application/json"
    THEN IF JsonResolves(r) THEN Returned(r.status) ELSE ApiError(0)
    ELSE IF TextResolves(r) THEN Returned(r.status) ELSE ApiError(0)

ApiStep(call) ==
    /\ api_call' = call
    /\ UNCHANGED engineVars
    /\ UNCHANGED busVars
    /\ UNCHANGED wsVars
    /\ UNCHANGED kanbanVars
    /\ UNCHANGED reentrantVars
    /\ UNCHANGED serviceVars
    /\ UNCHANGED chatVars

\* request(method, endpoint, options) is called and awaits fetch.
request(method) ==
    /\ api_call.phase # "pending"
    /\ ApiStep([phase |-> "pending", method |-> method, fetched |-> NoResponse,
                outcome |-> NoOutcome])

\* fetch rejects: no response was received.
fetchRejects ==
    /\ api_call.phase = "pending"
    /\ ApiStep([api_call EXCEPT !.phase = "settled", !.fetched = NoResponse,
                                !.outcome = RequestOutcome(NoResponse)])

\* fetch resolves with the response r.
fetchResolves(r) ==
    /\ api_call.phase = "pending"
    /\ ApiStep([api_call EXCEPT !.phase = "settled", !.fetched = r,
                                !.outcome = RequestOutcome(r)])

\* --------------------------------------------------------- Kanban component
\* The board is a version of the server's board: every write on the server
\* makes the next version.  NoBoard is the empty board the component starts
\* with; `snapshot` is the last board received over /kanban/ws.
NoBoard == -1

KanbanStep(k, channel, requests) ==
    /\ kanban' = k
    /\ ws_channel' = channel
    /\ http' = requests
    /\ Len(channel) <= MaxChannel
    /\ Len(requests) <= MaxRequests
    /\ UNCHANGED engineVars
    /\ UNCHANGED busVars
    /\ UNCHANGED wsVars
    /\ UNCHANGED apiVars
    /\ UNCHANGED reentrantVars
    /\ UNCHANGED serviceVars
    /\ UNCHANGED chatVars

\* loadBoard() up to its first await: GET /kanban/board is sent.
loadBoard(requests) == Append(requests, [served |-> FALSE, data |-> NoBoard])

\* connectKanbanWs(): wsKanban.value = new WebSocket(.../kanban/ws).
connectKanbanWs(k) == [k EXCEPT !.wsKanban = "connecting"]

\* onMounted: loadBoard(); connectKanbanWs().
onMounted ==
    /\ ~kanban.mounted
    /\ KanbanStep(connectKanbanWs([kanban EXCEPT !.mounted = TRUE]), ws_channel,
                  loadBoard(http))
    /\ UNCHANGED server_board

\* The hub accepts the observer and sends it the full current board.
hubAccepts ==
    /\ kanban.wsKanban = "connecting"
    /\ KanbanStep([kanban EXCEPT !.wsKanban = "open"],
                  <<[type |-> "board", data |-> server_board]>>, http)
    /\ UNCHANGED server_board

\* A write on the server; the hub notifies the connected observer.
serverWrite ==
    /\ server_board < MaxWrites
    /\ server_board' = server_board + 1
    /\ KanbanStep(kanban,
                  IF kanban.wsKanban = "open"
                  THEN Append(ws_channel, [type |-> "state_changed",
                                           data |-> server_board + 1])
                  ELSE ws_channel,
                  http)

\* wsKanban.onmessage: a board message replaces the board, a state_changed
\* message calls loadBoard().
kanbanOnMessage ==
    /\ kanban.wsKanban = "open"
    /\ ws_channel # <<>>
    /\ LET m == Head(ws_channel) IN
       IF m.type = "board"
       THEN KanbanStep([kanban EXCEPT !.board = m.data, !.snapshot = m.data],
                       Tail(ws_channel), http)
       ELSE KanbanStep(kanban, Tail(ws_channel), loadBoard(http))
    /\ UNCHANGED server_board

\* The server answers the i-th request in flight with its current board.
serveBoard(i) ==
    /\ i \in DOMAIN http
    /\ ~http[i].served
    /\ KanbanStep(kanban, ws_channel,
                  [http EXCEPT ![i] = [served |-> TRUE, data |-> server_board]])
    /\ UNCHANGED server_board

\* The answer to the i-th request arrives, in whatever order the network
\* gives: board.value = await api.get('/kanban/board').
loadBoardResolves(i) ==
    /\ i \in DOMAIN http
    /\ http[i].served
    /\ KanbanStep([kanban EXCEPT !.board = http[i].data], ws_channel,
                  SubSeq(http, 1, i - 1) \o SubSeq(http, i + 1, Len(http)))
    /\ UNCHANGED server_board

\* The i-th request fails: loadBoard shows a toast and leaves the board.
loadBoardRejects(i) ==
    /\ i \in DOMAIN http
    /\ KanbanStep(kanban, ws_channel,
                  SubSeq(http, 1, i - 1) \o SubSeq(http, i + 1, Len(http)))
    /\ UNCHANGED server_board

\* onUnmounted: wsKanban.value.close() starts the closing handshake of a
\* socket that is connecting or open and does nothing to a closed one.
onUnmounted ==
    /\ kanban.mounted
    /\ ~kanban.unmounted
    /\ KanbanStep([kanban EXCEPT !.unmounted = TRUE,
                                 !.wsKanban = IF @ \in {"connecting", "open"}
                                              THEN "closing" ELSE @],
                  ws_channel, http)
    /\ UNCHANGED server_board

\* startSession(sessionId) up to its first await: the POST is sent; the
\* server starts the session, which is a write on its board.
kanbanStartSession ==
    /\ kanban.mounted
    /\ ~kanban.unmounted
    /\ ~kanban.posting
    /\ server_board < MaxWrites
    /\ server_board' = server_board + 1
    /\ KanbanStep([kanban EXCEPT !.posting = TRUE],
                  IF kanban.wsKanban = "open"
                  THEN Append(ws_channel, [type |-> "state_changed",
                                           data |-> server_board + 1])
                  ELSE ws_channel,
                  http)

\* The POST is answered: startSession shows its toast and calls loadBoard().
startSessionResolves ==
    /\ kanban.posting
    /\ KanbanStep([kanban EXCEPT !.posting = FALSE], ws_channel, loadBoard(http))
    /\ UNCHANGED server_board

\* wsKanban.onclose, of a socket that failed, was dropped or was closed by
\* the component: setTimeout(connectKanbanWs, 3000).
kanbanOnClose ==
    /\ kanban.wsKanban \in {"connecting", "open", "closing"}
    /\ kanban.timeouts < MaxTimeouts
    /\ KanbanStep([kanban EXCEPT !.wsKanban = "closed", !.timeouts = @ + 1], <<>>, http)
    /\ UNCHANGED server_board

\* The timeout fires: connectKanbanWs().
kanbanTimeout ==
    /\ kanban.timeouts > 0
    /\ kanban.wsKanban = "closed"
    /\ KanbanStep(connectKanbanWs([kanban EXCEPT !.timeouts = @ - 1]), ws_channel, http)
    /\ UNCHANGED server_board

\* --------------------------------------------------------- WebSocketService
\* The constructor's setting.
serviceMaxReconnectAttempts == 5

\* What a listener registered for 'disconnected' does when it is called (the
\* field `disconnected` is the array of these listeners), and the type fields
\* of the server's messages.
DisconnectedListeners == {"returns", "throws"}
ServiceMessageTypes == {"", "metrics", "task_update"}

\* emit(event, data) calls the listeners without a try: it throws when a
\* listener throws.
ServiceEmitThrows(svc, event) ==
    /\ event = "disconnected"
    /\ \E k \in DOMAIN svc.disconnected : svc.disconnected[k] = "throws"

\* attemptReconnect()
ServiceAttemptReconnect(svc) ==
    IF svc.reconnectAttempts < serviceMaxReconnectAttempts
    THEN [svc EXCEPT !.reconnectAttempts = @ + 1,
                     !.timeouts = Append(@, 2000 * (svc.reconnectAttempts + 1))]
    ELSE svc

ServiceStep(svc) ==
    /\ wsService' = svc
    /\ UNCHANGED engineVars
    /\ UNCHANGED busVars
    /\ UNCHANGED <<wsVars, apiVars, kanbanVars, reentrantVars, chatVars>>

\* on('disconnected', callback)
serviceOn(does) ==
    /\ Len(wsService.disconnected) < MaxListeners
    /\ ServiceStep([wsService EXCEPT !.disconnected = Append(@, does)])

\* off('disconnected', callback): callbacks.splice(index, 1)
serviceOff(k) ==
    /\ k \in DOMAIN wsService.disconnected
    /\ ServiceStep([wsService EXCEPT !.disconnected =
                       SubSeq(@, 1, k - 1) \o SubSeq(@, k + 1, Len(@))])

\* ws.onerror: this.emit('error', error); the browser closes the socket
\* afterwards.
serviceOnError ==
    /\ wsService.ws \in {"connecting", "open"}
    /\ wsService.emitted # "error"
    /\ ServiceStep([wsService EXCEPT !.emitted = "error"])

\* connect(), called by the application once.
serviceConnect ==
    /\ wsService.ws = "none"
    /\ ServiceStep([wsService EXCEPT !.ws = "connecting"])

\* ws.onopen
serviceOnOpen ==
    /\ wsService.ws = "connecting"
    /\ ServiceStep([wsService EXCEPT !.ws = "open", !.reconnectAttempts = 0,
                                     !.emitted = "connected"])

\* ws.onmessage: this.emit(data.type || 'message', data)
serviceOnMessage(type) ==
    /\ wsService.ws = "open"
    /\ ServiceStep([wsService EXCEPT !.emitted = IF type = "" THEN "message" ELSE type])

\* ws.onclose: this.emit('disconnected'); this.attemptReconnect().
serviceOnClose ==
    /\ wsService.ws \in {"connecting", "open"}
    /\ LET svc == [wsService EXCEPT !.ws = "closed", !.emitted = "disconnected"] IN
       ServiceStep(IF ServiceEmitThrows(svc, "disconnected") THEN svc
                   ELSE ServiceAttemptReconnect(svc))

\* The timeout fires: this.connect().
serviceTimeout ==
    /\ wsService.timeouts # <<>>
    /\ ServiceStep([wsService EXCEPT !.timeouts = Tail(@), !.ws = "connecting"])

Init ==
    /\ backlog_items = <<>>
    /\ backlog_events = <<>>
    /\ clarifications = <<>>
    /\ sqlite_sequence = [backlog_items |-> 0, backlog_events |-> 0, clarifications |-> 0]
    /\ now = 1
    /\ result = Outcome("none", 0, "ok", NullText)
    /\ calls = [c \in Callers |-> "idle"]
    /\ sessions = <<>>
    /\ session_events = <<>>
    /\ recommendation = NoRecommendation
    /\ toast = NullText
    /\ listeners = <<>>
    /\ stack = <<>>
    /\ invoked = <<>>
    /\ emit_result = "none"
    /\ wsManager = [ws |-> 0, reconnectAttempts |-> 0, isConnecting |-> FALSE,
                    shouldReconnect |-> TRUE, messageQueue |-> <<>>]
    /\ sockets = <<>>
    /\ timers = <<>>
    /\ waiting = 0
    /\ ws_emitted = <<>>
    /\ transmitted = <<>>
    /\ sends = 0
    /\ user_disconnected = FALSE
    /\ api_call = [phase |-> "idle", method |-> "GET", fetched |-> NoResponse,
                   outcome |-> NoOutcome]
    /\ kanban = [mounted |-> FALSE, unmounted |-> FALSE, posting |-> FALSE,
                 board |-> NoBoard, snapshot |-> NoBoard,
                 wsKanban |-> "none", timeouts |-> 0]
    /\ server_board = 0
    /\ ws_channel = <<>>
    /\ http = <<>>
    /\ handled = [c \in OnceCallbacks |-> 0]
    /\ unsubscribed = {}
    /\ turn = 0
    /\ wsService = [ws |-> "none", reconnectAttempts |-> 0, timeouts |-> <<>>,
                    disconnected |-> <<>>, emitted |-> "none"]
    /\ chat = [rendered |-> FALSE, models |-> <<>>, currentModel |-> "", input |-> "",
               isStreaming |-> FALSE, btnDisabled |-> FALSE, inputDisabled |-> FALSE,
               sources |-> <<>>]

\* ------------------------------------------------------------ LLMChatModule
\* The model names GET /chat/models can list, what the user can have in the
\* textarea, and the data of a message of /chat/stream: text that does not
\* parse, or an object with or without error, token and done.  "" stands for
\* the null currentModel of the constructor and for the value of the option
\* "No models available".
DefaultModel == "qwen2.5:14b"
ModelLists == {<<>>, <<"m1">>, <<"m1", "m2">>}
LoadOutcomes ==
    {[ok |-> TRUE, models |-> m] : m \in ModelLists} \cup {[ok |-> FALSE, models |-> <<>>]}
InputValues == {"", " ", "hi"}
StreamData ==
    {[parses |-> TRUE, error |-> e, token |-> t, done |-> d] : e, t, d \in BOOLEAN}
        \cup {[parses |-> FALSE, error |-> FALSE, token |-> FALSE, done |-> FALSE]}

\* input.value.trim()
Trim(value) == IF value = " " THEN "" ELSE value

\* loadModels(): the list and its first name, or the default name when the
\* list is empty; a failed request empties the list and keeps currentModel.
LoadModels(c, o) ==
    IF o.ok
    THEN [c EXCEPT !.models = o.models,
                   !.currentModel = IF o.models # <<>> THEN o.models[1] ELSE DefaultModel]
    ELSE [c EXCEPT !.models = <<>>]

\* render(): the textarea and the button are disabled when no model is listed.
render(c) ==
    [c EXCEPT !.rendered = TRUE, !.input = "",
              !.btnDisabled = (c.models = <<>>), !.inputDisabled = (c.models = <<>>)]

\* updateSendButton(isLoading)
updateSendButton(c, isLoading) ==
    IF c.rendered
    THEN [c EXCEPT !.btnDisabled = isLoading, !.inputDisabled = isLoading]
    ELSE c

\* The condition under which sendMessage goes on after its first lines.
CanSendWhileStreaming(c) == c.rendered /\ Trim(c.input) # "" /\ c.currentModel # ""

CanSend(c) == c.rendered /\ Trim(c.input) # "" /\ ~c.isStreaming /\ c.currentModel # ""

\* The three lines that end a stream: eventSource.close(), isStreaming =
\* false, updateSendButton(false), for the EventSource of the handler.
EndStream(c, i) ==
    updateSendButton([c EXCEPT !.sources[i].readyState = "closed", !.isStreaming = FALSE],
                     FALSE)

\* sendMessage(); `throws`: new EventSource(url) throws.
SendMessage(c, throws) ==
    IF ~CanSend(c) THEN c
    ELSE LET started == updateSendButton([c EXCEPT !.input = "", !.isStreaming = TRUE], TRUE) IN
         IF throws
         THEN updateSendButton([started EXCEPT !.isStreaming = FALSE], FALSE)
         ELSE [started EXCEPT !.sources = Append(@, [readyState |-> "open",
                                                     fullResponse |-> 0])]

\* eventSource.onmessage of the i-th EventSource.
OnStreamMessage(c, i, data) ==
    IF ~data.parses THEN c
    ELSE IF data.error THEN EndStream(c, i)
    ELSE LET told == IF data.token
                     THEN [c EXCEPT !.sources[i].fullResponse = @ + 1]
                     ELSE c IN
         IF data.done THEN EndStream(told, i) ELSE told

ChatStep(c) ==
    /\ chat' = c
    /\ UNCHANGED engineVars
    /\ UNCHANGED busVars
    /\ UNCHANGED <<wsVars, apiVars, kanbanVars, reentrantVars, serviceVars>>

\* init(): loadModels, render, bindEvents.
chatInit(o) ==
    /\ ~chat.rendered
    /\ ChatStep(render(LoadModels(chat, o)))

\* refresh(): loadModels and the options of the selector.
refresh(o) ==
    /\ chat.rendered
    /\ ChatStep(LoadModels(chat, o))

\* The change listener of the model selector: currentModel = e.target.value.
selectModel(m) ==
    /\ chat.rendered
    /\ IF chat.models = <<>> THEN m = ""
       ELSE \E k \in DOMAIN chat.models : chat.models[k] = m
    /\ ChatStep([chat EXCEPT !.currentModel = m])

\* The textarea gets the value v, from the user or from a script.
chatInput(v) ==
    /\ chat.rendered
    /\ ChatStep([chat EXCEPT !.input = v])

\* The click listener of the button, Enter in the textarea, or a call of
\* sendMessage() by other code of the page.
sendMessage(throws) ==
    /\ chat.rendered
    /\ Len(chat.sources) < MaxStreams
    /\ ChatStep(SendMessage(chat, throws))

\* A message of the stream arrives at an EventSource that is not closed.
chatOnMessage(i, data) ==
    /\ i \in DOMAIN chat.sources
    /\ chat.sources[i].readyState = "open"
    /\ data.token => chat.sources[i].fullResponse < MaxTokens
    /\ ChatStep(OnStreamMessage(chat, i, data))

\* eventSource.onerror: the connection failed or the server ended it.
chatOnError(i) ==
    /\ i \in DOMAIN chat.sources
    /\ chat.sources[i].readyState = "open"
    /\ ChatStep(EndStream(chat, i))

\* The life of one item while the clock runs.
Next ==
    \/ \E t \in CreateTitles, p \in CreatePriorities, s \in CreateStatuses :
          createFirst(t, p, s)
    \/ \E t \in PatchTitles, p \in PatchPriorities, s \in PatchStatuses, f \in BOOLEAN :
          update(1, t, p, s, f)
    \/ \E s \in ChangeStatuses : changeStatus(1, s)
    \/ \E p \in ChangePriorities : changePriority(1, p)
    \/ deleteTask(1)
    \/ \E q \in Questions : ask(1, q)
    \/ \E c \in 1..MaxClar, a \in Answers : answer(c, a)
    \/ Tick

Spec == Init /\ [][Next]_vars

\* A backlog of up to MaxItems items, all requests within one value of
\* CURRENT_TIMESTAMP; patches carry status and priority.
NextBacklog ==
    \/ \E t \in CreateTitles, p \in CreatePriorities, s \in CreateStatuses : create(t, p, s)
    \/ \E i \in 1..MaxItems, p \in PatchPriorities, s \in PatchStatuses, f \in BOOLEAN :
          update(i, Omitted, p, s, f)
    \/ \E i \in 1..MaxItems, s \in ChangeStatuses : changeStatus(i, s)
    \/ \E i \in 1..MaxItems, p \in ChangePriorities : changePriority(i, p)
    \/ \E i \in 1..MaxItems : deleteTask(i)
    \/ \E i \in 1..MaxItems, q \in Questions : ask(i, q)
    \/ \E c \in 1..MaxClar, a \in Answers : answer(c, a)

SpecBacklog == Init /\ [][NextBacklog]_vars

\* Two callers mark the same item done while other status changes and the
\* clock interleave.
NextMarkDone ==
    \/ \E t \in CreateTitles, p \in CreatePriorities, s \in CreateStatuses :
          createFirst(t, p, s)
    \/ \E c \in Callers : markDone(c, 1)
    \/ \E s \in ChangeStatuses : changeStatus(1, s)
    \/ \E t \in PatchTitles, p \in PatchPriorities, s \in PatchStatuses, f \in BOOLEAN :
          update(1, t, p, s, f)
    \/ deleteTask(1)
    \/ Tick

SpecMarkDone == Init /\ [][NextMarkDone]_vars

\* Session requests from any caller, in any order; the store may be unwritable.
NextSession ==
    \/ \E s \in SessionNames, ok \in BOOLEAN : createSession(s, ok)
    \/ \E s \in SessionNames, ok \in BOOLEAN : startSession(s, ok)
    \/ \E s \in SessionNames, ok \in BOOLEAN : requestApproval(s, ok)
    \/ \E s \in SessionNames, a \in BOOLEAN, ok \in BOOLEAN : approveSession(s, a, ok)
    \/ \E s \in SessionNames, ok \in BOOLEAN : pauseSession(s, ok)
    \/ \E s \in SessionNames, ok \in BOOLEAN : resumeSession(s, ok)
    \/ \E s \in SessionNames, ok \in BOOLEAN : completeSession(s, ok)
    \/ \E s \in SessionNames, ok \in BOOLEAN : failSession(s, ok)

SpecSession == Init /\ [][NextSession]_vars

\* A backlog whose items are created, reprioritised, closed and reopened
\* within one value of CURRENT_TIMESTAMP while the dashboard asks what to do
\* next.
NextRecommend ==
    \/ \E t \in CreateTitles, p \in CreatePriorities, s \in CreateStatuses : create(t, p, s)
    \/ \E i \in 1..MaxItems, s \in RecommendStatuses : changeStatus(i, s)
    \/ \E i \in 1..MaxItems, p \in ChangePriorities : changePriority(i, p)
    \/ whatNext

SpecRecommend == Init /\ [][NextRecommend]_vars

\* Modules subscribe, unsubscribe and publish on the event bus; callbacks
\* return or throw.
NextEventBus ==
    \/ \E e \in EventNames, c \in Callbacks : on(e, c)
    \/ \E e \in EventNames, c \in Callbacks : off(e, c)
    \/ \E e \in EventNames, d \in Payloads : emit(e, d)
    \/ \E threw \in BOOLEAN : callback(threw)
    \/ emitContinue

SpecEventBus == Init /\ [][NextEventBus]_vars

\* The event bus with callbacks that subscribe, unsubscribe and emit while
\* an emit runs.  A callback that is called returns in the end, so the
\* forEach that called it goes on.
NextReentrant ==
    \/ \E e \in EventNames, c \in PlainCallbacks : subscribe(e, c)
    \/ \E e \in EventNames, c \in PlainCallbacks : unsubscribe(e, c)
    \/ \E e \in EventNames, c \in OnceCallbacks : once(e, c)
    \/ \E e \in EventNames, d \in Payloads : emit(e, d)
    \/ \E c \in PlainCallbacks \cup OnceCallbacks : handler(c)
    \/ emitContinue

SpecReentrant == Init /\ [][NextReentrant]_vars
FairReentrant ==
    /\ SpecReentrant
    /\ WF_vars(\E c \in PlainCallbacks \cup OnceCallbacks : handler(c))
    /\ WF_vars(emitContinue)

\* The WebSocketManager between its client, the sockets it creates and its
\* reconnect timeouts.
NextWebSocket ==
    \/ connect
    \/ send
    \/ disconnect
    \/ \E s \in 1..MaxSockets : onopen(s)
    \/ \E s \in 1..MaxSockets : closing(s)
    \/ \E s \in 1..MaxSockets : onerror(s)
    \/ \E s \in 1..MaxSockets : onclose(s)
    \/ \E s \in 1..MaxSockets, t \in MessageTypes : onmessage(s, t)
    \/ \E k \in 1..MaxTimers : reconnectTimer(k)

SpecWebSocket == Init /\ [][NextWebSocket]_vars

\* One ApiClient.request call after the other.
NextApi ==
    \/ \E m \in Methods : request(m)
    \/ fetchRejects
    \/ \E r \in Responses : fetchResolves(r)

SpecApi == Init /\ [][NextApi]_vars

\* The Kanban component as an observer of the server's board.
NextKanban ==
    \/ onMounted
    \/ hubAccepts
    \/ serverWrite
    \/ kanbanOnMessage
    \/ \E i \in 1..MaxRequests : serveBoard(i)
    \/ \E i \in 1..MaxRequests : loadBoardResolves(i)
    \/ \E i \in 1..MaxRequests : loadBoardRejects(i)
    \/ kanbanOnClose
    \/ kanbanTimeout
    \/ onUnmounted
    \/ kanbanStartSession
    \/ startSessionResolves

SpecKanban == Init /\ [][NextKanban]_vars

\* The WebSocketService of the Vue application.
NextService ==
    \/ \E does \in DisconnectedListeners : serviceOn(does)
    \/ \E k \in 1..MaxListeners : serviceOff(k)
    \/ serviceConnect
    \/ serviceOnError
    \/ serviceOnOpen
    \/ \E t \in ServiceMessageTypes : serviceOnMessage(t)
    \/ serviceOnClose
    \/ serviceTimeout

SpecService == Init /\ [][NextService]_vars

\* The LLMChatModule, its user and its streams.
NextChat ==
    \/ \E o \in LoadOutcomes : chatInit(o)
    \/ \E o \in LoadOutcomes : refresh(o)
    \/ \E m \in {"", "m1", "m2"} : selectModel(m)
    \/ \E v \in InputValues : chatInput(v)
    \/ \E throws \in BOOLEAN : sendMessage(throws)
    \/ \E i \in 1..MaxStreams, data \in StreamData : chatOnMessage(i, data)
    \/ \E i \in 1..MaxStreams : chatOnError(i)

SpecChat == Init /\ [][NextChat]_vars

\* The manager under a client that only calls connect(): connections that
\* open, close and fail, and the reconnect timeouts.
NextReconnect ==
    \/ connect
    \/ \E s \in 1..MaxSockets : onopen(s)
    \/ \E s \in 1..MaxSockets : closing(s)
    \/ \E s \in 1..MaxSockets : onerror(s)
    \/ \E s \in 1..MaxSockets : onclose(s)
    \/ \E k \in 1..MaxTimers : reconnectTimer(k)

SpecReconnect == Init /\ [][NextReconnect]_vars

\* ------------------------------------------------------------ the event log
EventsOf(i) == SelectSeq(backlog_events, LAMBDA e : e.item_id = i)
StatusEvents(i) == SelectSeq(backlog_events,
                             LAMBDA e : e.item_id = i /\ e.event_type = "status_changed")
DoneEvents(i) == SelectSeq(StatusEvents(i), LAMBDA e : e.event_data.new_status = "done")
CompletedEvents(i) == SelectSeq(backlog_events,
                                LAMBDA e : e.item_id = i /\ e.event_type = "completed")
CreatedDone(i) == \E k \in 1..Len(backlog_events) :
                     /\ backlog_events[k].item_id = i
                     /\ backlog_events[k].event_type = "created"
                     /\ backlog_events[k].event_data.status = "done"
\* The events a step appended.
Appended == SubSeq(backlog_events', Len(backlog_events) + 1, Len(backlog_events'))

\* ------------------------------------------------------------------ replay
\* The effect of one event on the materialized row of its item.
ApplyEvent(row, e) ==
    CASE e.event_type = "created" ->
            [id |-> e.item_id, external_id |-> e.external_id,
             title |-> e.event_data.title, priority |-> e.event_data.priority,
             item_type |-> DefaultItemType, status |-> e.event_data.status,
             created_at |-> e.created_at, updated_at |-> e.created_at,
             completed_at |-> NULL]
      [] e.event_type = "status_changed" ->
            [row EXCEPT !.status = e.event_data.new_status,
                        !.updated_at = e.created_at,
                        !.completed_at = IF e.event_data.new_status = "done"
                                         THEN e.created_at ELSE @]
      [] e.event_type = "priority_changed" ->
            [row EXCEPT !.priority = e.event_data.new_priority,
                        !.updated_at = e.created_at]
      [] e.event_type = "field_updated" ->
            [row EXCEPT !.title = e.event_data.value, !.updated_at = e.created_at]
      [] e.event_type = "clarification_asked" ->
            [row EXCEPT !.updated_at = e.created_at]
      [] OTHER -> row

\* Replays events in sequence order, starting from `row`.
RECURSIVE Replay(_, _)
Replay(row, events) ==
    IF events = <<>> THEN row
    ELSE Replay(ApplyEvent(row, Head(events)), Tail(events))

\* The state before any event: no row.
NoRow == [id |-> 0]

C2_DoneHasCompletedAt ==
    \A i \in ItemIds : backlog_items[i].status = "done" =>
                          backlog_items[i].completed_at # NULL

\* C3: two concurrent changeStatus(item, done) calls on an item that is not
\* yet done leave exactly one status_changed event into done and exactly one
\* completed event, whichever call runs first.
C3_OneDoneEvent ==
    (1 \in ItemIds /\ ~CreatedDone(1) /\ \E c \in Callers : calls[c] = "ok") =>
        Len(DoneEvents(1)) = 1 /\ Len(CompletedEvents(1)) = 1

\* Both calls have returned successfully.
C3_Witness ==
    /\ 1 \in ItemIds /\ ~CreatedDone(1)
    /\ \A c \in Callers : calls[c] = "ok"
    /\ Len(DoneEvents(1)) = 1 /\ Len(CompletedEvents(1)) = 1

\* C4: a write that changes an item's status appends exactly one
\* status_changed event, recording the old and the new status; a write that
\* leaves the status unchanged appends none.
C4_OneStatusEventPerTransition ==
    [][\A i \in ItemIds : i \in DOMAIN backlog_items' =>
          LET o == backlog_items[i]
              n == backlog_items'[i]
              sc == SelectSeq(Appended, LAMBDA e : e.item_id = i
                                                  /\ e.event_type = "status_changed")
          IN IF o.status # n.status
             THEN /\ Len(sc) = 1
                  /\ sc[1].event_data = [old_status |-> o.status, new_status |-> n.status]
             ELSE Len(sc) = 0]_vars

\* An item whose status changed once and that was written again later with
\* its status unchanged.
C4_Witness ==
    \E i \in ItemIds : /\ Len(StatusEvents(i)) = 1
                       /\ backlog_items[i].updated_at > StatusEvents(i)[1].created_at
                       /\ backlog_items[i].status = StatusEvents(i)[1].event_data.new_status

\* C5: no write takes an item out of done, a cancelled item only changes to
\* open, and a request answered InvalidTransition leaves the items and the
\* event log as they were.
C5_TransitionTableEnforced ==
    [][/\ \A i \in ItemIds : i \in DOMAIN backlog_items' =>
             /\ backlog_items[i].status = "done" => backlog_items'[i].status = "done"
             /\ backlog_items[i].status = "cancelled" =>
                   backlog_items'[i].status \in {"cancelled", "open"}
       /\ result'.code = "InvalidTransition" =>
             /\ backlog_items' = backlog_items
             /\ backlog_events' = backlog_events
             /\ clarifications' = clarifications]_vars

\* A request on a done item was refused.
C5_Witness ==
    /\ result.code = "InvalidTransition"
    /\ \E i \in ItemIds : backlog_items[i].status = "done"

C7_AppendOnly ==
    [][/\ Len(backlog_events) <= Len(backlog_events')
       /\ SubSeq(backlog_events', 1, Len(backlog_events)) = backlog_events]_vars

\* The log holds events written by several requests.
C7_Witness ==
    /\ Len(backlog_events) >= 3
    /\ \E k \in 1..Len(backlog_events) : backlog_events[k].event_type = "status_changed"
    /\ \E k \in 1..Len(backlog_events) : backlog_events[k].event_type = "field_updated"

\* C8: event ids strictly increase in append order across all items, and no
\* id above the recorded sequence value is in use, so none is handed out twice.
C8_EventIdsIncrease ==
    /\ \A k, l \in 1..Len(backlog_events) :
          k < l => backlog_events[k].id < backlog_events[l].id
    /\ \A k \in 1..Len(backlog_events) :
          backlog_events[k].id <= sqlite_sequence.backlog_events

\* Events of two items interleave in the log.
C8_Witness ==
    /\ Len(backlog_events) >= 4
    /\ \E k, l, m \in 1..Len(backlog_events) :
          /\ k < l /\ l < m
          /\ backlog_events[k].item_id = backlog_events[m].item_id
          /\ backlog_events[k].item_id # backlog_events[l].item_id

\* C9: replaying an item's events in sequence order from the empty state
\* reproduces its materialized row, and replaying them once more over the
\* result changes nothing.
C9_ReplayReproducesRow ==
    \A i \in ItemIds :
        /\ Replay(NoRow, EventsOf(i)) = backlog_items[i]
        /\ Replay(Replay(NoRow, EventsOf(i)), EventsOf(i)) = Replay(NoRow, EventsOf(i))

C11_AnswerIdempotent ==
    [][/\ \A c \in ClarIds :
             clarifications[c].answer # NullText =>
                /\ c \in DOMAIN clarifications'
                /\ clarifications'[c] = clarifications[c]
                /\ \A k \in 1..Len(Appended) :
                      Appended[k].event_type = "clarification_answered" =>
                         Appended[k].event_data.clarification # c
                /\ \A a \in Answers :
                      answer(c, a) =>
                         /\ result' = Outcome("answer", c, "ok", clarifications[c].answer)
                         /\ backlog_events' = backlog_events
                         /\ backlog_items' = backlog_items
       /\ \A c \in 1..MaxClar, a \in Answers :
             answer(c, a) => DOMAIN backlog_items' = DOMAIN backlog_items]_vars

\* An answered clarification was answered again after its item had been
\* written at a later time: the call returned the stored answer.
C11_Witness ==
    \E c \in ClarIds :
        /\ clarifications[c].answer # NullText
        /\ result = Outcome("answer", c, "ok", clarifications[c].answer)
        /\ clarifications[c].answered_at < backlog_items[clarifications[c].item_id].updated_at
        /\ Len(SelectSeq(backlog_events,
                         LAMBDA e : e.event_type = "clarification_answered")) = 1

\* C12: every item with at least one unanswered clarification appears among
\* the items needing clarification, whatever its stored status.
C12_OpenClarificationReported ==
    \A i \in ItemIds :
        OpenClarifications(clarifications, i) # {} =>
           \E r \in v_needs_clarification : r.external_id = backlog_items[i].external_id

\* ----------------------------------------------------------- session log
SessionEventsOf(log, s) == SelectSeq(log, LAMBDA e : e.session_id = s)
SessionHistory(s) ==
    [k \in 1..Len(SessionEventsOf(session_events, s)) |->
        SessionEventsOf(session_events, s)[k].event_type]
LastSessionEvent(log, s) == SessionEventsOf(log, s)[Len(SessionEventsOf(log, s))]
Denied(log, s) ==
    \E k \in 1..Len(log) : /\ log[k].session_id = s
                            /\ log[k].event_type = "approval_resolved"
                            /\ log[k].event_data = "denied"
\* The session events a step appended.
AppendedSession == SubSeq(session_events', Len(session_events) + 1, Len(session_events'))
\* A session request was refused as an illegal transition and wrote nothing.
RefusedTransition ==
    /\ result'.code = "InvalidTransition"
    /\ sessions' = sessions
    /\ session_events' = session_events

\* C13: a session that was created and started is working; after
\* requestApproval it is waiting_for_approval; after resolveApproval with
\* approved = false it is failed, and a pause that follows fails with
\* InvalidTransition and leaves it failed.
C13_DenialScenario ==
    [][\A s \in SessionIds :
          /\ SessionHistory(s) = <<"created", "started">> =>
                sessions[s].state = "working"
          /\ SessionHistory(s) = <<"created", "started", "approval_requested">> =>
                sessions[s].state = "waiting_for_approval"
          /\ (/\ SessionHistory(s) = <<"created", "started", "approval_requested",
                                       "approval_resolved">>
              /\ Denied(session_events, s)) =>
                /\ sessions[s].state = "failed"
                /\ \A ok \in BOOLEAN :
                      pauseSession(s, ok) => RefusedTransition /\ sessions'[s].state = "failed"
      ]_vars

\* The scenario ran to its end: the only session was denied and a request on
\* it was refused.
C13_Witness ==
    /\ SessionIds = {"s1"}
    /\ SessionHistory("s1") = <<"created", "started", "approval_requested", "approval_resolved">>
    /\ Denied(session_events, "s1")
    /\ sessions["s1"].state = "failed"
    /\ result.code = "InvalidTransition"

\* C14: no step changes a session that is completed or failed or appends an
\* event for it, and complete and fail succeed from every other state.
C14_TerminalAbsorbing ==
    [][\A s \in SessionIds :
          IF sessions[s].state \in SessionTerminal
          THEN /\ s \in DOMAIN sessions'
               /\ sessions'[s] = sessions[s]
               /\ SessionEventsOf(session_events', s) = SessionEventsOf(session_events, s)
               /\ \A ok, a \in BOOLEAN :
                     (\/ startSession(s, ok) \/ requestApproval(s, ok)
                      \/ approveSession(s, a, ok) \/ pauseSession(s, ok)
                      \/ resumeSession(s, ok) \/ completeSession(s, ok)
                      \/ failSession(s, ok)) => RefusedTransition
          ELSE /\ completeSession(s, TRUE) =>
                     result'.code = "ok" /\ sessions'[s].state = "completed"
               /\ failSession(s, TRUE) =>
                     result'.code = "ok" /\ sessions'[s].state = "failed"]_vars

\* A session was completed straight from waiting_for_approval and a later
\* request was refused.
C14_Witness ==
    \E s \in SessionIds :
        /\ sessions[s].state = "completed"
        /\ SessionHistory(s) = <<"created", "started", "approval_requested", "completed">>
        /\ result.code = "InvalidTransition"

\* C15: a step takes a session from waiting_for_approval to working only by
\* appending the approval_resolved event of an approval, and a session that
\* was denied is never working afterwards.
C15_ApprovalGate ==
    [][\A s \in SessionIds :
          /\ (sessions[s].state = "waiting_for_approval"
              /\ sessions'[s].state = "working") =>
                /\ Len(AppendedSession) = 1
                /\ AppendedSession[1].session_id = s
                /\ AppendedSession[1].event_type = "approval_resolved"
                /\ AppendedSession[1].event_data = "approved"
          /\ \A ok \in BOOLEAN :
                (sessions[s].state = "waiting_for_approval"
                 /\ (\/ startSession(s, ok) \/ requestApproval(s, ok)
                     \/ pauseSession(s, ok) \/ resumeSession(s, ok)
                     \/ completeSession(s, ok) \/ failSession(s, ok)
                     \/ approveSession(s, FALSE, ok))) =>
                   sessions'[s].state # "working"
          /\ Denied(session_events', s) => sessions'[s].state # "working"]_vars

\* A session went through the gate: it is working after an approval.
C15_Witness ==
    \E s \in SessionIds :
        /\ sessions[s].state = "working"
        /\ LastSessionEvent(session_events, s).event_type = "approval_resolved"
        /\ LastSessionEvent(session_events, s).event_data = "approved"

\* C16: start takes a session from idle to working, pause from working to
\* paused, resume from paused to working; called in any other state each
\* fails with InvalidTransition and writes nothing.
C16_GuardedOperations ==
    [][\A s \in SessionIds, ok \in BOOLEAN :
          /\ startSession(s, ok) =>
                IF sessions[s].state = "idle"
                THEN ok => result'.code = "ok" /\ sessions'[s].state = "working"
                ELSE RefusedTransition
          /\ pauseSession(s, ok) =>
                IF sessions[s].state = "working"
                THEN ok => result'.code = "ok" /\ sessions'[s].state = "paused"
                ELSE RefusedTransition
          /\ resumeSession(s, ok) =>
                IF sessions[s].state = "paused"
                THEN ok => result'.code = "ok" /\ sessions'[s].state = "working"
                ELSE RefusedTransition]_vars

\* A paused session refused a request.
C16_Witness ==
    \E s \in SessionIds :
        /\ sessions[s].state = "paused"
        /\ SessionHistory(s) = <<"created", "started", "paused">>
        /\ result.code = "InvalidTransition"

\* C17: the state of every session row is the state recorded by the last
\* event appended for that session, and every event belongs to a stored
\* session: no row is written without its event and no event without its row.
C17_SessionWriteAtomic ==
    /\ \A s \in SessionIds :
          /\ SessionEventsOf(session_events, s) # <<>>
          /\ LastSessionEvent(session_events, s).state = sessions[s].state
    /\ \A k \in 1..Len(session_events) : session_events[k].session_id \in SessionIds

\* A transition of a working session failed on the store.
C17_Witness ==
    /\ result.code = "StoreUnavailable"
    /\ \E s \in SessionIds : /\ sessions[s].state = "working"
                              /\ Len(SessionEventsOf(session_events, s)) >= 2

\* C18: two runs of recommend against the same backlog return the same
\* ordering: the ranking admits exactly one row order, in which rows of equal
\* rank come by created_at and then by external id.
C18_RecommendDeterministic ==
    /\ \A r1, r2 \in v_active_by_priority : r1 = r2
    /\ \A r \in v_active_by_priority : \A k, l \in DOMAIN r :
          (/\ k < l
           /\ r[k].priority = r[l].priority
           /\ r[k].created_at = r[l].created_at) => r[k].external_id < r[l].external_id

\* C19: next returns either an item or the nothing-actionable signal; the
\* item it returns is a stored item that is neither done nor cancelled, and it
\* returns the signal exactly when every stored item is done or cancelled.
C19_NextActionable ==
    \A ranking \in v_active_by_priority :
        LET response == next(ranking)
            signal == response.message = NothingActionable
        IN /\ signal <=> response.recommendation = NoRecommendation
           /\ signal <=> \A i \in ItemIds : backlog_items[i].status \in {"done", "cancelled"}
           /\ ~signal =>
                 /\ response.recommendation.status \notin {"done", "cancelled"}
                 /\ \E i \in ItemIds :
                       /\ backlog_items[i].external_id = response.recommendation.external_id
                       /\ backlog_items[i].status \notin {"done", "cancelled"}

\* The dashboard was given an item, and later, with every item done or
\* cancelled, the nothing-actionable signal.
C19_Witness ==
    /\ recommendation # NoRecommendation
    /\ toast = NothingActionable
    /\ Cardinality(ItemIds) = 2
    /\ \E i, j \in ItemIds : /\ backlog_items[i].status = "done"
                              /\ backlog_items[j].status = "cancelled"

\* C20: an emit always returns to its caller, whatever its callbacks throw,
\* and when it returns it has invoked every listener of the event and then
\* every wildcard listener, including those registered after a callback that
\* threw.
C20_EmitIsolatesObservers ==
    [][/\ emit_result' # "threw"
       /\ (stack # <<>> /\ stack' = <<>>) =>
             /\ emit_result' = "returned"
             /\ [k \in DOMAIN invoked' |-> invoked'[k].callback] =
                   ListenersOf(stack[1].event) \o ListenersOf(Wildcard)]_vars

\* An emit returned after its first callback threw and the listeners after
\* it, of the event and of the wildcard, were invoked.
C20_Witness ==
    /\ emit_result = "returned"
    /\ Len(invoked) >= 3
    /\ invoked[1].threw
    /\ invoked[1].phase = "event"
    /\ invoked[2].phase = "event"
    /\ invoked[Len(invoked)].phase = "wildcard"

\* ------------------------------------------------------------------------
\* EventBus with callbacks that use the bus

\* C31: a callback given to once runs at most once, whatever is emitted
\* afterwards, also when it emits the same event itself.
C31_OnceAtMostOnce == handled["w"] <= 1
C31_Witness ==
    /\ handled["w"] = 1
    /\ Len(stack) = 2
    /\ stack[2].phase = "wildcard"
    /\ stack[2].pos > Len(Visiting(stack[2]))
    /\ Len(ListenersOf(stack[2].event)) > 0

\* C32: after the unsubscribe function of on(event, cb) was called, the
\* event no longer calls cb, not even in an emit that was running and had
\* not reached cb, and listenerCount(event) does not count cb.
C32_UnsubscribedNotCalled ==
    [][/\ \A c \in PlainCallbacks :
             handler(c) => \A p \in unsubscribed :
                              <<p[1], p[2]>> # <<VisitedEvent(stack[Len(stack)]), c>>
       /\ \A p \in unsubscribed' : p[1] \in DOMAIN listeners' =>
             IndexOf(listeners'[p[1]], p[2]) = 0]_vars
C32_Witness ==
    /\ <<"e1", "f", TRUE>> \in unsubscribed
    /\ Len(stack) = 1
    /\ stack[1].phase = "wildcard"
    /\ ListenersOf("e1") = <<"u">>

\* The calls of callback c that the last emit made in the phase.
CallsOf(log, c, phase) ==
    {k \in DOMAIN log : log[k].callback = c /\ log[k].phase = phase}

\* C33: an emit(event, data) that returns has called every listener of the
\* event exactly once with data and every wildcard listener exactly once
\* with {event, data}, and nothing else, the listeners of the event first.
C33_EveryListenerOnce ==
    [][(stack # <<>> /\ stack' = <<>>) =>
          LET event == stack[1].event
              data == stack[1].data IN
          /\ \A c \in Callbacks :
                /\ Cardinality(CallsOf(invoked', c, "event")) =
                      IF IndexOf(ListenersOf(event), c) # 0 THEN 1 ELSE 0
                /\ Cardinality(CallsOf(invoked', c, "wildcard")) =
                      IF IndexOf(ListenersOf(Wildcard), c) # 0 THEN 1 ELSE 0
          /\ \A k \in DOMAIN invoked' :
                IF invoked'[k].phase = "event"
                THEN /\ invoked'[k].argument = data
                     /\ \A j \in 1..k : invoked'[j].phase = "event"
                ELSE invoked'[k].argument = [event |-> event, data |-> data]]_vars
C33_Witness ==
    /\ emit_result = "returned"
    /\ Len(invoked) = 3
    /\ \A k \in DOMAIN invoked : ~invoked[k].threw
    /\ invoked[1].phase = "event" /\ invoked[1].argument = "d1"
    /\ invoked[2].phase = "event" /\ invoked[2].callback # invoked[1].callback
    /\ invoked[3].phase = "wildcard"
    /\ invoked[3].argument = [event |-> "e1", data |-> "d1"]

\* C34: an emit whose callbacks all return, each after finitely many calls
\* of on, once and off, returns.
C34_EmitReturns == (stack # <<>>) ~> (stack = <<>>)

\* ------------------------------------------------------------------------
\* WebSocketManager

\* The sockets of the manager that are connecting or open.
LiveSockets == {s \in DOMAIN sockets : sockets[s].readyState \in {"CONNECTING", "OPEN"}}

\* The step created a WebSocket.
SocketCreated == \E s \in DOMAIN sockets' : s \notin DOMAIN sockets

\* The step emitted the event on the event bus.
Emitted(event) == \E i \in DOMAIN ws_emitted' : ws_emitted'[i] = event

\* The messages the step handed to a socket, in order.
Messages(seq) == [i \in DOMAIN seq |-> seq[i].message]

\* C21: once the component has received the snapshot of its connection, the
\* notifications on their way to it are those of later writes, each once,
\* and the board it holds is never older than that snapshot.
C21_SnapshotThenLaterWrites ==
    kanban.snapshot # NoBoard =>
        /\ \A i \in DOMAIN ws_channel :
              /\ ws_channel[i].type = "state_changed" => ws_channel[i].data > kanban.snapshot
              /\ \A j \in DOMAIN ws_channel :
                    i < j => ws_channel[i].data < ws_channel[j].data
        /\ kanban.board >= kanban.snapshot

\* C22: the number of messages buffered for a peer that is not open stays
\* under a fixed bound whatever the client sends (here: fewer than the
\* MaxSends messages the client sends), the excess being dropped.
C22_QueueBounded == Len(wsManager.messageQueue) < MaxSends

\* C23: reconnectAttempts never exceeds maxReconnectAttempts.
C23_AttemptsCapped == wsManager.reconnectAttempts <= maxReconnectAttempts

\* C24: the timeout set by attemptReconnect when reconnectAttempts = k is
\* the smaller of 1000 * 2^k and 30000 ms; reconnectAttempts only falls at an
\* open, so within an outage the successive delays do not decrease, and none
\* exceeds 30000 ms.
C24_BackoffDelay ==
    [][/\ Len(timers') > Len(timers) =>
            LET k == wsManager.reconnectAttempts
                d == timers'[Len(timers')] IN
            /\ d \in {1000 * 2^k, 30000}
            /\ d <= 1000 * 2^k
            /\ d <= 30000
            /\ \A j \in 0..k : ReconnectDelay(j) <= d
       /\ wsManager'.reconnectAttempts < wsManager.reconnectAttempts =>
            Emitted("ws:connected")]_vars
C24_Witness ==
    /\ wsManager.reconnectAttempts = 6
    /\ timers = <<30000>>

\* C25: request reports a network error (ApiError with status 0) only when
\* no response was received; when the server responded, the call returns
\* or throws an ApiError that carries the response's status.
C25_StatusZeroMeansNoResponse ==
    api_call.phase = "settled" =>
        /\ isNetworkError(api_call.outcome) => ~api_call.fetched.received
        /\ api_call.fetched.received =>
              \/ api_call.outcome.kind = "returned"
              \/ api_call.outcome = ApiError(api_call.fetched.status)

\* C26: a create that gives only a title adds one item with priority P2,
\* type personal and status open under an external id that no item has and
\* that was never assigned before, and appends exactly one event, the
\* created event of that item.
C26_CreateDefaults ==
    [][\A t \in Titles :
          create(t, Omitted, Omitted) =>
             \E id \in ItemIds' \ ItemIds :
                LET item == backlog_items'[id] IN
                /\ ItemIds' = ItemIds \cup {id}
                /\ \A j \in ItemIds : backlog_items'[j] = backlog_items[j]
                /\ item.title = t
                /\ item.priority = "P2"
                /\ item.item_type = "personal"
                /\ item.status = "open"
                /\ \A j \in ItemIds : backlog_items[j].external_id # item.external_id
                /\ \A k \in DOMAIN backlog_events :
                      backlog_events[k].external_id # item.external_id
                /\ item.external_id > sqlite_sequence.backlog_items
                /\ Len(backlog_events') = Len(backlog_events) + 1
                /\ SubSeq(backlog_events', 1, Len(backlog_events)) = backlog_events
                /\ backlog_events'[Len(backlog_events')].event_type = "created"
                /\ backlog_events'[Len(backlog_events')].item_id = id
                /\ backlog_events'[Len(backlog_events')].external_id = item.external_id
                /\ result'.code = "ok"]_vars
C26_Witness ==
    /\ Cardinality(ItemIds) = 2
    /\ \A i \in ItemIds : /\ backlog_items[i].priority = "P2"
                          /\ backlog_items[i].item_type = "personal"
                          /\ backlog_items[i].status = "open"
    /\ Len(backlog_events) = 2
    /\ \A k \in DOMAIN backlog_events : backlog_events[k].event_type = "created"
    /\ backlog_events[1].external_id # backlog_events[2].external_id

\* C27: the messages queued while the socket was not open are all handed to
\* the socket, once and in the order of the send calls, at the next open.
C27_QueueFlushedAtOpen ==
    [][\A s \in 1..MaxSockets :
          onopen(s) => /\ Messages(transmitted') = wsManager.messageQueue
                       /\ wsManager'.messageQueue = <<>>]_vars

\* C28: once disconnect() was called and until the client calls connect()
\* or send() again, no WebSocket is created.
C28_NoConnectionAfterDisconnect ==
    [][user_disconnected /\ user_disconnected' => ~SocketCreated]_vars

\* C29: at most one WebSocket of the manager is connecting or open.
C29_OneLiveSocket == Cardinality(LiveSockets) <= 1

\* C30: a server message emits none of ws:connected, ws:disconnected and
\* ws:error and settles no pending connect() promise.
C30_MessagesAreNotLifecycle ==
    [][\A s \in 1..MaxSockets, t \in MessageTypes :
          onmessage(s, t) => /\ ~Emitted("ws:connected")
                             /\ ~Emitted("ws:disconnected")
                             /\ ~Emitted("ws:error")
                             /\ waiting' = waiting]_vars

\* ------------------------------------------------------------------------
\* WebSocketService

\* C35: a close of the socket while reconnectAttempts < 5 sets exactly one
\* timeout, of 2000 * n ms for the n-th attempt in a row, whatever the
\* 'disconnected' listeners do; at 5 it sets none; an open sets the counter
\* to 0.
C35_CloseSchedulesOneReconnect ==
    [][/\ serviceOnClose =>
             IF wsService.reconnectAttempts < 5
             THEN /\ wsService'.reconnectAttempts = wsService.reconnectAttempts + 1
                  /\ wsService'.timeouts =
                        Append(wsService.timeouts, 2000 * wsService'.reconnectAttempts)
             ELSE wsService'.timeouts = wsService.timeouts
       /\ serviceOnOpen => wsService'.reconnectAttempts = 0]_vars
\* C36: after the component is unmounted no WebSocket is created any more.
C36_NoSocketAfterUnmount ==
    [][kanban.unmounted =>
          ~(kanban'.wsKanban = "connecting" /\ kanban.wsKanban # "connecting")]_vars

\* C37: no step replaces the board by an older one.
C37_BoardNeverRegresses == [][kanban'.board >= kanban.board]_vars

\* The EventSources that are not closed.
OpenSources(c) == {i \in DOMAIN c.sources : c.sources[i].readyState = "open"}

\* C38: no stream is started while isStreaming is true, so that at most one
\* EventSource is open: one while isStreaming is true and none otherwise;
\* and a step that ends a stream leaves its EventSource closed, isStreaming
\* false, and the send button and the input enabled.
C38_OneStreamAtATime ==
    [][/\ chat.isStreaming => chat'.sources \in {chat.sources} \cup
                                  {[chat.sources EXCEPT ![i].readyState = r,
                                                        ![i].fullResponse = n] :
                                     i \in DOMAIN chat.sources,
                                     r \in {"open", "closed"}, n \in 0..MaxTokens}
       /\ Cardinality(OpenSources(chat')) = IF chat'.isStreaming THEN 1 ELSE 0
       /\ OpenSources(chat') # OpenSources(chat) /\ OpenSources(chat') = {} =>
              /\ ~chat'.isStreaming
              /\ ~chat'.btnDisabled
              /\ ~chat'.inputDisabled]_vars

\* A second stream runs after the first one ended, and the textarea holds a
\* message again: sendMessage leaves everything as it is.
C38_Witness ==
    /\ chat.isStreaming
    /\ Trim(chat.input) # ""
    /\ chat.currentModel # ""
    /\ Len(chat.sources) = 2
    /\ chat.sources[1].readyState = "closed"
    /\ chat.btnDisabled
    /\ SendMessage(chat, FALSE) = chat

====
